---- MODULE Spec2Model ----
(***************************************************************************)
(* A model of the dino chat providers (internal/providers): the provider   *)
(* factory, the Gemini REST+SSE client, the OpenAI SDK client and the      *)
(* Ollama SDK client.                                                      *)
(*                                                                         *)
(* Strings are sequences of one-character strings, so that TrimSpace,      *)
(* ToLower, HasPrefix and line splitting are computed as the Go code       *)
(* computes them.  A response body is a sequence of wire units: single     *)
(* bytes for the SSE framing ("d","a","t","a",":"," ","\n","\r", the       *)
(* characters of [DONE]) and indivisible JSON tokens for the payloads      *)
(* ("{", "}", "cand", a text token, an error token).                       *)
(***************************************************************************)
EXTENDS Integers, Sequences, FiniteSets, TLC

(***************************************************************************)
(* Bounds of the model.                                                    *)
(***************************************************************************)
\* the most SSE events (or SDK chunks) one response carries
MaxEvents == 2
\* the most bytes of a physical read that does not take the whole rest of
\* the body
MaxRead == 2

(***************************************************************************)
(* Go strings package, on sequences of characters.                         *)
(***************************************************************************)
SpaceChars == {" ", "\t", "\n", "\r"}

RECURSIVE TrimLeftSet(_, _)
TrimLeftSet(s, cutset) ==
    IF s # <<>> /\ Head(s) \in cutset THEN TrimLeftSet(Tail(s), cutset) ELSE s

RECURSIVE TrimRightSet(_, _)
TrimRightSet(s, cutset) ==
    IF s # <<>> /\ s[Len(s)] \in cutset
    THEN TrimRightSet(SubSeq(s, 1, Len(s) - 1), cutset)
    ELSE s

TrimSpace(s) == TrimLeftSet(TrimRightSet(s, SpaceChars), SpaceChars)

HasPrefix(s, p) == Len(s) >= Len(p) /\ SubSeq(s, 1, Len(p)) = p

HasSuffix(s, p) == Len(s) >= Len(p) /\ SubSeq(s, Len(s) - Len(p) + 1, Len(s)) = p

TrimPrefix(s, p) == IF HasPrefix(s, p) THEN SubSeq(s, Len(p) + 1, Len(s)) ELSE s

LowerChar(c) ==
    CASE c = "A" -> "a" [] c = "E" -> "e" [] c = "G" -> "g" [] c = "I" -> "i"
      [] c = "K" -> "k" [] c = "L" -> "l" [] c = "M" -> "m" [] c = "N" -> "n"
      [] c = "O" -> "o" [] c = "P" -> "p" [] c = "T" -> "t" [] c = "U" -> "u"
      [] c = "H" -> "h" [] c = "Y" -> "y"
      [] OTHER -> c

ToLower(s) == [i \in 1..Len(s) |-> LowerChar(s[i])]

\* strings.IndexByte: the position of the first c in s, 0 when there is none.
IndexByte(s, c) ==
    IF \E i \in 1..Len(s) : s[i] = c
    THEN CHOOSE i \in 1..Len(s) : s[i] = c /\ \A j \in 1..(i - 1) : s[j] # c
    ELSE 0

Contains(s, c) == IndexByte(s, c) # 0

RECURSIVE Concat(_)
Concat(ss) == IF ss = <<>> THEN <<>> ELSE Head(ss) \o Concat(Tail(ss))

(***************************************************************************)
(* Errors.  NoErr is Go's nil error.  A wrapped error (%w) keeps the       *)
(* message of its cause and names the wrapping label; an error returned    *)
(* as is keeps every field.  cause is the kind of the innermost error of   *)
(* the chain, what errors.Is and errors.As find.                           *)
(***************************************************************************)
Err(kind, label, code, status, message) ==
    [kind |-> kind, label |-> label, code |-> code, status |-> status,
     message |-> message, body |-> <<>>, cause |-> kind]

NoErr == Err("nil", "", 0, "", "")

\* fmt.Errorf(label + ": %v", cause): the text of the cause without the chain
WrapOpaque(label, cause) == Err("wrapped", label, cause.code, cause.status, cause.message)

\* fmt.Errorf(label + ": %w", cause)
Wrap(label, cause) ==
    [Err("wrapped", label, cause.code, cause.status, cause.message)
       EXCEPT !.cause = cause.cause]

\* fmt.Errorf(label) with no cause
Errorf(label) == Err("errorf", label, 0, "", "")

\* ctx.Err() of a cancelled context, as the transport and the SDKs report it
CtxErr == Err("context", "", 0, "", "context canceled")

\* the error of a failed network operation: the cancellation when the
\* context was cancelled (io = "cancel"), a transport error otherwise
IOErr(io, message) ==
    IF io = "cancel" THEN CtxErr ELSE Err("transport", "", 0, "", message)

\* the error value returned by the caller's callback
CallbackErr == Err("callback", "", 0, "", "stop")

(***************************************************************************)
(* JSON, at the level of tokens.  A Gemini response object                 *)
(*   {"candidates":[{"content":{"parts":[{"text":"Hel"}]}}],"error":{..}}  *)
(* is written "{", then per candidate "cand" followed by one text token    *)
(* per part, then an optional error token, then "}".                       *)
(***************************************************************************)
TextToks == {"Hel", "lo", "nil"}

\* the string value of a text token; "nil" is a part whose text is ""
TextOf(tok) ==
    CASE tok = "Hel" -> <<"H", "e", "l">>
      [] tok = "lo"  -> <<"l", "o">>
      [] OTHER       -> <<>>

ErrToks == {"err429", "err500"}

\* geminiErrorPayload{Code, Status, Message} decoded from an error token
ErrorPayload(tok) ==
    IF tok = "err429"
    THEN Err("upstream", "", 429, "RESOURCE_EXHAUSTED", "quota")
    ELSE Err("upstream", "", 500, "", "boom")

IsJSONToken(u) == u \in ({"cand"} \cup TextToks \cup ErrToks)

\* the candidates of a token list: "cand" opens a candidate, a text token
\* adds a part to the open candidate
RECURSIVE FoldCandidates(_, _)
FoldCandidates(toks, acc) ==
    IF toks = <<>> THEN acc
    ELSE LET t == Head(toks) IN
         IF t = "cand" THEN FoldCandidates(Tail(toks), Append(acc, <<>>))
         ELSE IF t \in TextToks
         THEN FoldCandidates(Tail(toks),
                  [acc EXCEPT ![Len(acc)] = Append(@, TextOf(t))])
         ELSE FoldCandidates(Tail(toks), acc)

\* the last error token of a token list decides the error field
LastError(toks) ==
    LET es == SelectSeq(toks, LAMBDA t : t \in ErrToks) IN
    IF es = <<>> THEN NoErr ELSE ErrorPayload(es[Len(es)])

WellFormedObject(toks) ==
    /\ Len(toks) >= 2
    /\ toks[1] = "{"
    /\ toks[Len(toks)] = "}"
    /\ \A i \in 2..(Len(toks) - 1) : IsJSONToken(toks[i])
    /\ \A i \in 2..(Len(toks) - 1) :
          toks[i] \in TextToks => \E j \in 2..(i - 1) : toks[j] = "cand"

\* json.Unmarshal(data, &geminiGenerateResponse{}): white space between
\* tokens is skipped; anything but one well-formed object is an error.
Unmarshal(data) ==
    LET toks  == SelectSeq(data, LAMBDA u : u \notin SpaceChars)
        inner == SubSeq(toks, 2, Len(toks) - 1)
    IN  IF WellFormedObject(toks)
        THEN [ok |-> TRUE, cands |-> FoldCandidates(inner, <<>>),
              err |-> LastError(inner)]
        ELSE [ok |-> FALSE, cands |-> <<>>, err |-> NoErr]

\* a decoder that takes the whole body for one value
DecodeWhole(data) == Unmarshal(data)

\* json.NewDecoder(body).Decode(&out): decodes the first value of the
\* stream and leaves what follows it unread.
DecodeFirst(data) ==
    LET s == TrimLeftSet(data, SpaceChars)
        e == IndexByte(s, "}")
    IN  IF e = 0 THEN [ok |-> FALSE, cands |-> <<>>, err |-> NoErr]
        ELSE Unmarshal(SubSeq(s, 1, e))

\* the error of a Decode that failed: the decoder asks the body for more
\* when the bytes so far open an object and do not close it, and reports
\* what the read gives (io.ErrUnexpectedEOF at the end of the body, the
\* read error otherwise); anything else is a syntax error
DecodeError(data, tail) ==
    LET s == TrimLeftSet(data, SpaceChars) IN
    IF s # <<>> /\ s[1] = "{" /\ IndexByte(s, "}") = 0 /\ tail # "eof"
    THEN IOErr(tail, "connection reset")
    ELSE Err("json", "", 0, "", "syntax")

(***************************************************************************)
(* Gemini client: construction and request building (gemini.go).           *)
(* A URL is a sequence of units: "?", "&" and "/" are units of their own,  *)
(* so that strings.Contains(endpoint, "?") and TrimRight(b, "/") are       *)
(* computed on it.                                                         *)
(***************************************************************************)
httpStatusClientErr == 400

S_api_key    == <<"a", "p", "i", "_", "k", "e", "y">>
S_auth_token == <<"a", "u", "t", "h", "_", "t", "o", "k", "e", "n">>

defaultGeminiBaseURL == <<"https://generativelanguage.googleapis.com", "/", "v1beta">>

normalizeGeminiBaseURL(base) ==
    LET b0 == TrimSpace(base)
        b  == TrimRightSet(b0, {"/"})
    IN  IF b0 = <<>> THEN defaultGeminiBaseURL
        ELSE IF \/ HasSuffix(b, <<"/", "v1">>)
                \/ HasSuffix(b, <<"/", "v1beta">>)
                \/ HasSuffix(b, <<"/", "v1beta1">>)
        THEN b
        ELSE b \o <<"/", "v1beta">>

NoProvider == [kind |-> "none", baseURL |-> <<>>, apiKey |-> <<>>, authType |-> <<>>]

NewGemini(c) ==
    LET apiKey   == TrimSpace(c.APIKey)
        lowered  == ToLower(TrimSpace(c.AuthType))
        authType == IF lowered = <<>> THEN S_api_key ELSE lowered
    IN  IF apiKey = <<>>
        THEN [p |-> NoProvider, err |-> Errorf("providers/gemini: missing api key")]
        ELSE IF authType # S_api_key /\ authType # S_auth_token
        THEN [p |-> NoProvider, err |-> Errorf("providers/gemini: unsupported auth type")]
        ELSE [p |-> [kind |-> "gemini", baseURL |-> normalizeGeminiBaseURL(c.BaseURL),
                     apiKey |-> apiKey, authType |-> authType],
              err |-> NoErr]

\* url.PathEscape and url.QueryEscape on the characters the model uses
PathEscapeChar(c) ==
    CASE c = "?" -> "%3F" [] c = "/" -> "%2F" [] c = " " -> "%20" [] OTHER -> c

PathEscape(s) == [i \in 1..Len(s) |-> PathEscapeChar(s[i])]

QueryEscapeChar(c) ==
    CASE c = "?" -> "%3F" [] c = "&" -> "%26" [] c = " " -> "+" [] OTHER -> c

QueryEscape(s) == [i \in 1..Len(s) |-> QueryEscapeChar(s[i])]

geminiStreamingPath == ":streamGenerateContent"
geminiNonStreamPath == ":generateContent"

\* buildEndpoint that takes the streaming path whatever the preference
buildEndpointAlwaysSSE(g, model, stream) ==
    LET m == TrimSpace(model) IN
    IF m = <<>>
    THEN [url |-> <<>>, err |-> Errorf("providers/gemini: model is required")]
    ELSE [url |-> TrimRightSet(g.baseURL, {"/"}) \o <<"/", "models", "/">>
                    \o PathEscape(m) \o <<geminiStreamingPath, "?", "alt=sse">>,
          err |-> NoErr]

buildEndpoint(g, model, stream) ==
    LET m == TrimSpace(model) IN
    IF m = <<>>
    THEN [url |-> <<>>, err |-> Errorf("providers/gemini: model is required")]
    ELSE [url |-> TrimRightSet(g.baseURL, {"/"}) \o <<"/", "models", "/">>
                    \o PathEscape(m)
                    \o (IF stream THEN <<geminiStreamingPath, "?", "alt=sse">>
                                  ELSE <<geminiNonStreamPath>>),
          err |-> NoErr]

\* attachAPIKey that does not look at the auth type
attachAPIKeyAlways(g, endpoint) ==
    IF Contains(endpoint, "?")
    THEN endpoint \o <<"&", "key=">> \o QueryEscape(g.apiKey)
    ELSE endpoint \o <<"?", "key=">> \o QueryEscape(g.apiKey)

attachAPIKey(g, endpoint) ==
    IF g.authType = S_auth_token THEN endpoint
    ELSE IF Contains(endpoint, "?")
    THEN endpoint \o <<"&", "key=">> \o QueryEscape(g.apiKey)
    ELSE endpoint \o <<"?", "key=">> \o QueryEscape(g.apiKey)

\* the *http.Request of newRequest plus the Accept header its caller sets;
\* a header that is not set is the empty sequence
newRequest(g, endpoint, body, accept) ==
    [url           |-> attachAPIKey(g, endpoint),
     body          |-> body,
     contentType   |-> <<"application/json">>,
     accept        |-> <<accept>>,
     authorization |-> IF g.authType = S_auth_token
                       THEN <<"Bearer ">> \o g.apiKey
                       ELSE <<>>]

\* checkGeminiResponse that does not look for the error envelope
checkGeminiResponseGeneric(status, body) ==
    IF status < httpStatusClientErr THEN NoErr
    ELSE [Err("http", "providers/gemini: http", status, "", "")
            EXCEPT !.body = TrimSpace(body)]

\* checkGeminiResponse that puts the body into the error as it came
checkGeminiResponseUntrimmed(status, body) ==
    LET apiErr == Unmarshal(body) IN
    IF status < httpStatusClientErr THEN NoErr
    ELSE IF apiErr.ok /\ apiErr.err # NoErr THEN apiErr.err
    ELSE [Err("http", "providers/gemini: http", status, "", "")
            EXCEPT !.body = body]

\* checkGeminiResponse: the error for a status and a body (NoErr below 400)
checkGeminiResponse(status, body) ==
    LET apiErr == Unmarshal(body) IN
    IF status < httpStatusClientErr THEN NoErr
    ELSE IF apiErr.ok /\ apiErr.err # NoErr THEN apiErr.err
    ELSE [Err("http", "providers/gemini: http", status, "", "")
            EXCEPT !.body = TrimSpace(body)]

(***************************************************************************)
(* Gemini client: the SSE reader (gemini.go).                              *)
(***************************************************************************)
DataPrefix   == <<"d", "a", "t", "a", ":">>
DoneSentinel == <<"[", "D", "O", "N", "E", "]">>

\* emitGeminiCandidates with the parts walked last to first
emitGeminiCandidatesReversed(cands) ==
    LET texts == SelectSeq(Concat(cands), LAMBDA t : t # <<>>) IN
    [i \in 1..Len(texts) |-> [content |-> texts[Len(texts) + 1 - i], thinking |-> <<>>]]

\* emitGeminiCandidates that calls onDelta for every part, empty or not
emitGeminiCandidatesEveryPart(cands) ==
    LET texts == Concat(cands) IN
    [i \in 1..Len(texts) |-> [content |-> texts[i], thinking |-> <<>>]]

\* emitGeminiCandidates: the onDelta calls of one response object, in
\* candidate order then part order, parts with empty text skipped
emitGeminiCandidates(cands) ==
    LET texts == SelectSeq(Concat(cands), LAMBDA t : t # <<>>) IN
    [i \in 1..Len(texts) |-> [content |-> texts[i], thinking |-> <<>>]]

\* dispatchSSEData that parses every payload that is not empty
dispatchSSEDataNoSentinel(payload) ==
    LET trimmed == TrimSpace(payload)
        chunk   == Unmarshal(trimmed)
    IN  IF trimmed = <<>>
        THEN [kind |-> "noop", err |-> NoErr, calls |-> <<>>]
        ELSE IF ~chunk.ok
        THEN [kind |-> "err", calls |-> <<>>,
              err |-> Wrap("providers/gemini: decode stream chunk",
                           Err("json", "", 0, "", "syntax"))]
        ELSE IF chunk.err # NoErr
        THEN [kind |-> "err", err |-> chunk.err, calls |-> <<>>]
        ELSE [kind |-> "emit", err |-> NoErr,
              calls |-> emitGeminiCandidates(chunk.cands)]

\* dispatchSSEData that emits the candidates of a payload whatever its
\* error field holds
dispatchSSEDataIgnoringError(payload) ==
    LET trimmed == TrimSpace(payload)
        chunk   == Unmarshal(trimmed)
    IN  IF trimmed = <<>> \/ trimmed = DoneSentinel
        THEN [kind |-> "noop", err |-> NoErr, calls |-> <<>>]
        ELSE IF ~chunk.ok
        THEN [kind |-> "err", calls |-> <<>>,
              err |-> Wrap("providers/gemini: decode stream chunk",
                           Err("json", "", 0, "", "syntax"))]
        ELSE [kind |-> "emit", err |-> NoErr,
              calls |-> emitGeminiCandidates(chunk.cands)]

\* dispatchSSEData that passes over a payload it cannot decode
dispatchSSEDataSkippingBad(payload) ==
    LET trimmed == TrimSpace(payload)
        chunk   == Unmarshal(trimmed)
    IN  IF trimmed = <<>> \/ trimmed = DoneSentinel \/ ~chunk.ok
        THEN [kind |-> "noop", err |-> NoErr, calls |-> <<>>]
        ELSE IF chunk.err # NoErr
        THEN [kind |-> "err", err |-> chunk.err, calls |-> <<>>]
        ELSE [kind |-> "emit", err |-> NoErr,
              calls |-> emitGeminiCandidates(chunk.cands)]

\* dispatchSSEData where the [DONE] payload ends the stream
dispatchSSEDataEndingAtDone(payload) ==
    LET trimmed == TrimSpace(payload)
        chunk   == Unmarshal(trimmed)
    IN  IF trimmed = DoneSentinel
        THEN [kind |-> "err", err |-> NoErr, calls |-> <<>>]
        ELSE IF trimmed = <<>>
        THEN [kind |-> "noop", err |-> NoErr, calls |-> <<>>]
        ELSE IF ~chunk.ok
        THEN [kind |-> "err", calls |-> <<>>,
              err |-> Wrap("providers/gemini: decode stream chunk",
                           Err("json", "", 0, "", "syntax"))]
        ELSE IF chunk.err # NoErr
        THEN [kind |-> "err", err |-> chunk.err, calls |-> <<>>]
        ELSE [kind |-> "emit", err |-> NoErr,
              calls |-> emitGeminiCandidates(chunk.cands)]

\* dispatchSSEData up to its call of emitGeminiCandidates
dispatchSSEData(payload) ==
    LET trimmed == TrimSpace(payload)
        chunk   == Unmarshal(trimmed)
    IN  IF trimmed = <<>> \/ trimmed = DoneSentinel
        THEN [kind |-> "noop", err |-> NoErr, calls |-> <<>>]
        ELSE IF ~chunk.ok
        THEN [kind |-> "err", calls |-> <<>>,
              err |-> Wrap("providers/gemini: decode stream chunk",
                           Err("json", "", 0, "", "syntax"))]
        ELSE IF chunk.err # NoErr
        THEN [kind |-> "err", err |-> chunk.err, calls |-> <<>>]
        ELSE [kind |-> "emit", err |-> NoErr,
              calls |-> emitGeminiCandidates(chunk.cands)]

\* processSSELine appending every remainder behind a newline
processSSELineAlwaysSeparated(line0, buf) ==
    LET line == TrimRightSet(line0, {"\r", "\n"}) IN
    IF HasPrefix(line, DataPrefix)
    THEN [act |-> "append",
          buf |-> buf \o <<"\n">> \o TrimSpace(TrimPrefix(line, DataPrefix))]
    ELSE IF line = <<>> /\ Len(buf) > 0
    THEN [act |-> "dispatch", buf |-> buf]
    ELSE [act |-> "skip", buf |-> buf]

\* processSSELine that takes a line of white space for a blank line
processSSELineTrimmed(line0, buf) ==
    LET line == TrimSpace(line0) IN
    IF HasPrefix(line, DataPrefix)
    THEN [act |-> "append",
          buf |-> (IF Len(buf) > 0 THEN buf \o <<"\n">> ELSE buf)
                    \o TrimSpace(TrimPrefix(line, DataPrefix))]
    ELSE IF line = <<>> /\ Len(buf) > 0
    THEN [act |-> "dispatch", buf |-> buf]
    ELSE [act |-> "skip", buf |-> buf]

\* processSSELine up to its call of dispatchSSEData
processSSELine(line0, buf) ==
    LET line == TrimRightSet(line0, {"\r", "\n"}) IN
    IF HasPrefix(line, DataPrefix)
    THEN [act |-> "append",
          buf |-> (IF Len(buf) > 0 THEN buf \o <<"\n">> ELSE buf)
                    \o TrimSpace(TrimPrefix(line, DataPrefix))]
    ELSE IF line = <<>> /\ Len(buf) > 0
    THEN [act |-> "dispatch", buf |-> buf]
    ELSE [act |-> "skip", buf |-> buf]

(***************************************************************************)
(* The server side of the Gemini wire: what the backend writes.            *)
(* An item is one SSE event (or a comment line) in one framing; doc is     *)
(* the token list of its JSON object, braces left out.                     *)
(***************************************************************************)
Item(fr, doc) == [fr |-> fr, doc |-> doc]

\* the lines of an item, end-of-line markers left out
ItemLines(it) ==
    CASE it.fr = "lf" ->
           << DataPrefix \o <<" ", "{">> \o it.doc \o <<"}">>, <<>> >>
      [] it.fr = "crlf" ->
           << <<":", "\r">>, DataPrefix \o <<"\r">>,
              DataPrefix \o <<"{">> \o it.doc \o <<"}", "\r">>, <<"\r">> >>
      [] it.fr = "split" ->
           << DataPrefix \o <<" ", "{">> \o SubSeq(it.doc, 1, Len(it.doc) - 1),
              DataPrefix \o <<it.doc[Len(it.doc)], "}">>, <<>> >>
      [] it.fr = "done" ->
           << DataPrefix \o <<" ">> \o DoneSentinel, <<>> >>
      [] it.fr = "noisy" ->
           << <<>>, DataPrefix \o <<"{">> \o it.doc \o <<"}">>, <<"i", "d", ":">>,
              <<" ", "\r">>, <<>> >>
      [] OTHER ->
           << DataPrefix \o <<"{", "cand">>, <<>> >>

IsBlankLine(l) == TrimRightSet(l, {"\r"}) = <<>>

\* the bytes of a list of items.  trunc says how the last event ends:
\* "full" with its blank line, "noblank" without it, "unterminated" without
\* it and without the end-of-line of its last data line.
WireOf(events, trunc) ==
    LET ls   == Concat([i \in 1..Len(events) |-> ItemLines(events[i])])
        kept == IF trunc # "full" /\ ls # <<>> /\ IsBlankLine(ls[Len(ls)])
                THEN SubSeq(ls, 1, Len(ls) - 1) ELSE ls
        text == Concat([i \in 1..Len(kept) |-> kept[i] \o <<"\n">>])
    IN  IF trunc = "unterminated" /\ text # <<>>
        THEN SubSeq(text, 1, Len(text) - 1) ELSE text

IsChunk(it) == it.fr \in {"lf", "crlf", "split", "noisy"} /\ \A i \in 1..Len(it.doc) : it.doc[i] \notin ErrToks

\* the non-empty text fragments the backend put into a list of items
ItemTexts(it) ==
    IF IsChunk(it)
    THEN LET ts == SelectSeq(it.doc, LAMBDA t : t \in TextToks /\ TextOf(t) # <<>>)
         IN  [i \in 1..Len(ts) |-> TextOf(ts[i])]
    ELSE <<>>

ProducedTexts(events) == Concat([i \in 1..Len(events) |-> ItemTexts(events[i])])

SeqsUpTo(S, n) == UNION {[1..k -> S] : k \in 0..n}

(***************************************************************************)
(* Request bodies and response-format negotiation.  A format value is raw  *)
(* JSON text: the quote, "{" and "}" are units of their own, a word such   *)
(* as json or schema is one unit.                                          *)
(***************************************************************************)
S_json_quoted == <<"\"", "json", "\"">>

\* json.Unmarshal(raw, &schema) into an any: the kind of the value, or
\* "invalid" when the text is not JSON
JSONKind(raw) ==
    LET toks == SelectSeq(raw, LAMBDA u : u \notin SpaceChars) IN
    CASE Len(toks) = 3 /\ toks[1] = "\"" /\ toks[3] = "\"" /\ toks[2] \notin {"\"", "{", "}"}
           -> "string"
      [] /\ Len(toks) >= 2 /\ toks[1] = "{" /\ toks[Len(toks)] = "}"
         /\ \A i \in 2..(Len(toks) - 1) : toks[i] \in {"schema", "strict"}
           -> "object"
      [] toks = <<"7">> -> "number"
      [] toks = <<"null">> -> "null"
      [] OTHER -> "invalid"

\* the decoded value: the text without insignificant white space
JSONValue(raw) == SelectSeq(raw, LAMBDA u : u \notin SpaceChars)

\* values of the Options map: Go's dynamic types
\* t is the type, n a number (floats in tenths, booleans 0 or 1), s a string
Val(t, n, s) == [t |-> t, n |-> n, s |-> s]

Digits == <<"0", "1", "2", "3", "4", "5", "6", "7", "8", "9">>

\* strconv.Atoi on an unsigned decimal: <<n>>, or <<>> when it fails
RECURSIVE AtoiFrom(_, _)
AtoiFrom(s, acc) ==
    IF s = <<>> THEN <<acc>>
    ELSE IF \E i \in 1..10 : Digits[i] = Head(s)
    THEN AtoiFrom(Tail(s),
                  10 * acc + (CHOOSE i \in 1..10 : Digits[i] = Head(s)) - 1)
    ELSE <<>>

Atoi(s) == IF s = <<>> THEN <<>> ELSE AtoiFrom(s, 0)

\* toInt: a pointer is <<>> (nil) or <<n>>
toInt(v) ==
    CASE v.t = "int"    -> <<v.n>>
      [] v.t = "float"  -> <<v.n \div 10>>
      [] v.t = "string" -> Atoi(TrimSpace(v.s))
      [] OTHER          -> <<>>

\* a map entry, the keys of a map and the value under a key
Entry(k, v)   == [k |-> k, v |-> v]
Keys(m)       == {e.k : e \in m}
Lookup(m, k)  == (CHOOSE e \in m : e.k = k).v

extractTopK(options) ==
    IF options = {} THEN <<>>
    ELSE IF "topK" \in Keys(options) /\ toInt(Lookup(options, "topK")) # <<>>
    THEN toInt(Lookup(options, "topK"))
    ELSE IF "top_k" \in Keys(options) /\ toInt(Lookup(options, "top_k")) # <<>>
    THEN toInt(Lookup(options, "top_k"))
    ELSE <<>>

\* *geminiGenerationConfig: isNil is the nil pointer; a pointer field is
\* <<>> or <<v>>, ResponseSchema is <<>> (nil) or <<the value>>
GenerationConfig(t, p, k, mime, schema) ==
    [isNil |-> FALSE, Temperature |-> t, TopP |-> p, TopK |-> k,
     ResponseMimeType |-> mime, ResponseSchema |-> schema]

NilGenerationConfig ==
    [GenerationConfig(<<>>, <<>>, <<>>, <<>>, <<>>) EXCEPT !.isNil = TRUE]

\* isEmpty that does not look at TopK
isEmptyButTopK(cfg) ==
    \/ cfg.isNil
    \/ /\ cfg.Temperature = <<>> /\ cfg.TopP = <<>>
       /\ cfg.ResponseMimeType = <<>> /\ cfg.ResponseSchema = <<>>

isEmpty(cfg) ==
    \/ cfg.isNil
    \/ /\ cfg.Temperature = <<>> /\ cfg.TopP = <<>> /\ cfg.TopK = <<>>
       /\ cfg.ResponseMimeType = <<>> /\ cfg.ResponseSchema = <<>>

\* buildGenerationConfig returning on a format that does not parse, before
\* the MIME type is set
buildGenerationConfigStrict(o) ==
    LET t    == IF o.Temperature # 0 THEN <<o.Temperature>> ELSE <<>>
        p    == IF o.TopP # 0 THEN <<o.TopP>> ELSE <<>>
        cfg  == IF o.NoResponseFormat \/ JSONKind(o.Format) = "invalid"
                THEN GenerationConfig(t, p, extractTopK(o.Options), <<>>, <<>>)
                ELSE GenerationConfig(t, p, extractTopK(o.Options),
                                      <<"application/json">>, <<JSONValue(o.Format)>>)
    IN  IF isEmpty(cfg) THEN NilGenerationConfig ELSE cfg

\* buildGenerationConfig that sends no configuration at all when the format
\* is suppressed
buildGenerationConfigSuppressingAll(o) ==
    LET t    == IF o.Temperature # 0 THEN <<o.Temperature>> ELSE <<>>
        p    == IF o.TopP # 0 THEN <<o.TopP>> ELSE <<>>
        k    == extractTopK(o.Options)
        mime == <<"application/json">>
        cfg  == IF Len(o.Format) > 0
                THEN GenerationConfig(t, p, k, mime,
                        IF JSONKind(o.Format) \notin {"invalid", "null"}
                        THEN <<JSONValue(o.Format)>> ELSE <<>>)
                ELSE GenerationConfig(t, p, k, mime, <<>>)
    IN  IF o.NoResponseFormat \/ isEmpty(cfg) THEN NilGenerationConfig ELSE cfg

\* buildGenerationConfig: the generationConfig of the request, nil when it
\* would be empty
buildGenerationConfig(o) ==
    LET t    == IF o.Temperature # 0 THEN <<o.Temperature>> ELSE <<>>
        p    == IF o.TopP # 0 THEN <<o.TopP>> ELSE <<>>
        k    == extractTopK(o.Options)
        mime == <<"application/json">>
        cfg  == IF o.NoResponseFormat
                THEN GenerationConfig(t, p, k, <<>>, <<>>)
                ELSE IF Len(o.Format) > 0
                THEN GenerationConfig(t, p, k, mime,
                        IF JSONKind(o.Format) \notin {"invalid", "null"}
                        THEN <<JSONValue(o.Format)>> ELSE <<>>)
                ELSE GenerationConfig(t, p, k, mime, <<>>)
    IN  IF isEmpty(cfg) THEN NilGenerationConfig ELSE cfg

\* buildRequestBody: the geminiGenerateRequest that is encoded; a nil
\* generationConfig is left out of the JSON (omitempty)
buildRequestBody(o) ==
    [contents |-> TrimSpace(o.Prompt), generationConfig |-> buildGenerationConfig(o)]

\* openai.ChatCompletionNewParamsResponseFormatUnion: mode "unset" is the
\* zero union, left out of the request
ResponseFormat(mode, name, strict, schema) ==
    [mode |-> mode, name |-> name, strict |-> strict, schema |-> schema]

JSONObjectMode == ResponseFormat("json_object", "", FALSE, <<>>)

\* toResponseFormat without the schema branch
toResponseFormatObjectOnly(raw) == JSONObjectMode

toResponseFormat(raw) ==
    LET trim == TrimSpace(raw) IN
    IF Len(raw) = 0 THEN JSONObjectMode
    ELSE IF trim = S_json_quoted \/ trim = <<"json">> THEN JSONObjectMode
    ELSE IF JSONKind(raw) # "invalid"
    THEN ResponseFormat("json_schema", "dino_schema", TRUE, JSONValue(raw))
    ELSE JSONObjectMode

\* the ChatCompletionNewParams OpenAI.Chat builds
OpenAIParams(o) ==
    [Model |-> o.Model, Temperature |-> o.Temperature, TopP |-> o.TopP,
     ResponseFormat |-> IF ~o.NoResponseFormat THEN toResponseFormat(o.Format)
                         ELSE ResponseFormat("unset", "", FALSE, <<>>)]

ensureFormat(f) == IF Len(f) = 0 THEN S_json_quoted ELSE f

\* mergeOptions: the derived values, then the caller's Options over them
mergeOptions(o) ==
    LET derived == {Entry("enable_thinking", Val("bool", IF o.Think THEN 1 ELSE 0, <<>>))}
                     \cup (IF o.Temperature # 0
                           THEN {Entry("temperature", Val("float", o.Temperature, <<>>))} ELSE {})
                     \cup (IF o.TopP # 0
                           THEN {Entry("top_p", Val("float", o.TopP, <<>>))} ELSE {})
    IN  {e \in derived : e.k \notin Keys(o.Options)} \cup o.Options

\* the api.ChatRequest Ollama.Chat builds; Stream is <<>> (nil) or <<FALSE>>
OllamaRequest(o) ==
    [Model |-> o.Model, Options |-> mergeOptions(o), Format |-> ensureFormat(o.Format),
     Stream |-> IF o.Stream THEN <<>> ELSE <<FALSE>>]

(***************************************************************************)
(* The provider factory and the SDK clients (ollama.go holds the Ollama    *)
(* client, the OpenAI client and the factory).                             *)
(***************************************************************************)
S_ollama == <<"o", "l", "l", "a", "m", "a">>
S_openai == <<"o", "p", "e", "n", "a", "i">>
S_gemini == <<"g", "e", "m", "i", "n", "i">>

\* NewOllamaFromEnv: api.ClientFromEnvironment fails on a malformed OLLAMA_HOST
NewOllamaFromEnv(envOK) ==
    IF envOK
    THEN [p |-> [NoProvider EXCEPT !.kind = "ollama"], err |-> NoErr]
    ELSE [p |-> NoProvider, err |-> Err("env", "", 0, "", "invalid OLLAMA_HOST")]

NewOpenAI(c) ==
    LET b0 == TrimSpace(c.BaseURL)
        b  == TrimRightSet(b0, {"/"})
    IN  [p |-> [kind     |-> "openai",
                apiKey   |-> IF TrimSpace(c.APIKey) # <<>> THEN c.APIKey ELSE <<>>,
                baseURL  |-> IF b0 = <<>> THEN <<>>
                             ELSE IF HasSuffix(b, <<"/", "v1">>) THEN b
                             ELSE b \o <<"/", "v1">>,
                authType |-> <<>>],
         err |-> NoErr]

\* New whose default branch falls back to the Ollama client
NewFallback(n, c, envOK) ==
    LET s == ToLower(TrimSpace(n)) IN
    CASE s = S_openai -> NewOpenAI(c)
      [] s = S_gemini -> NewGemini(c)
      [] OTHER        -> NewOllamaFromEnv(envOK)

\* providers.New
New(n, c, envOK) ==
    LET s == ToLower(TrimSpace(n)) IN
    CASE s = <<>> \/ s = S_ollama -> NewOllamaFromEnv(envOK)
      [] s = S_openai             -> NewOpenAI(c)
      [] s = S_gemini             -> NewGemini(c)
      [] OTHER -> [p |-> NoProvider, err |-> Errorf("unsupported provider")]

\* a Chat that calls opts.OnDelta as it is: calling a nil func panics
onDeltaUnguarded(o, n) ==
    IF o.OnDelta.isNil THEN Err("panic", "", 0, "", "nil func")
    ELSE IF n = o.OnDelta.failAt THEN CallbackErr
    ELSE NoErr

\* onDeltaOrNoop(opts.OnDelta) applied for the n-th time: a nil callback is
\* replaced by one that returns nil; the caller's callback fails on its
\* failAt-th invocation (never when failAt = 0)
onDeltaOrNoop(o, n) ==
    IF o.OnDelta.isNil THEN NoErr
    ELSE IF n = o.OnDelta.failAt THEN CallbackErr
    ELSE NoErr

\* a streaming loop that forwards the first choice of every chunk that has
\* one, white space included
OpenAIStreamCallsUnfiltered(ch) ==
    IF Len(ch.choices) = 0 THEN <<>>
    ELSE << [content |-> TrimSpace(ch.choices[1]), thinking |-> <<>>] >>

\* the onDelta calls handleStreamingChat makes for one chunk
OpenAIStreamCalls(ch) ==
    IF Len(ch.choices) = 0 THEN <<>>
    ELSE LET content == TrimSpace(ch.choices[1]) IN
         IF content = <<>> THEN <<>>
         ELSE << [content |-> content, thinking |-> <<>>] >>

\* one onDelta call per choice, contents as they came
OpenAIResponseCallsPerChoice(resp) ==
    [i \in 1..Len(resp.choices) |-> [content |-> resp.choices[i], thinking |-> <<>>]]

\* the onDelta call OpenAI.Chat makes for a non-streaming response
OpenAIResponseCalls(resp) ==
    << [content |-> TrimSpace(resp.choices[1]), thinking |-> <<>>] >>

\* the onDelta call respFunc makes for one Ollama response
OllamaCalls(resp) ==
    << [content |-> resp.choices[1], thinking |-> resp.thinking] >>

\* errors the SDK reports: "api" is an *openai.Error, "cancel" the error
\* of the cancelled context, "other" a transport error
SdkError(kind) ==
    IF kind = "api" THEN Err("openai_api", "", 429, "", "rate limited")
    ELSE IOErr(kind, "connection reset")

\* formatOpenAIAPIError: nil stays nil; an *openai.Error is wrapped behind a
\* detail report, any other error behind the context label
formatOpenAIAPIError(context, kind) ==
    IF kind = "none" THEN NoErr
    ELSE IF kind = "api"
    THEN [Wrap(context, SdkError(kind)) EXCEPT !.kind = "wrapped_detail"]
    ELSE Wrap(context, SdkError(kind))

(***************************************************************************)
(* State.                                                                  *)
(***************************************************************************)
VARIABLES
    newIn,      \* the arguments of providers.New and the process environment
    opts,       \* the ChatOptions of the Chat call
    world,      \* what the network and the backend do during the call
    pc,         \* where the caller is: new, failed, ready, do, resp, read,
                \* oa_wait, oa_stream, ol_stream, cb (inside onDelta), done
    provider,   \* the Provider New returned
    newErr,     \* the error New returned
    requests,   \* the requests issued to the network so far
    res,        \* the response body or SDK stream held by the call
    pos,        \* bytes of the body read from the network / chunks iterated
    rbuf,       \* bufio.Reader: bytes read and not yet returned
    dataBuf,    \* readSSEStream's dataBuf
    emitQ,      \* onDelta calls the running emit loop still has to make
    after,      \* where the call goes on once the emit loop is through
    delivered,  \* the onDelta invocations so far, in order
    ret,        \* the error Chat returned
    other,      \* the Chat call of a second goroutine on the same client,
                \* while that goroutine is not the one running
    bbox,       \* a DenormalizeBbox call: its arguments and what it returned
    build       \* a NewChatOptions call: its Option arguments, the maps of
                \* the heap and the ChatOptions it returned

vars == <<newIn, opts, world, pc, provider, newErr, requests, res, pos, rbuf,
          dataBuf, emitQ, after, delivered, ret, other, bbox, build>>

(***************************************************************************)
(* Inputs.                                                                 *)
(***************************************************************************)
NewIn(n, k, a, b, e) ==
    [name |-> n, cfg |-> [APIKey |-> k, AuthType |-> a, BaseURL |-> b], envOK |-> e]

\* ChatOptions with the optional controls at their zero values.  Format is
\* the raw JSON text, Temperature and TopP are in tenths, Options is a map:
\* a set of [k, v] entries with distinct keys.
Opts(m, p, st, isNil, failAt) ==
    [Model |-> m, Prompt |-> p, Stream |-> st,
     OnDelta |-> [isNil |-> isNil, failAt |-> failAt],
     Format |-> <<>>, NoResponseFormat |-> FALSE,
     Temperature |-> 0, TopP |-> 0, Think |-> FALSE, Options |-> {}]

\* WithFormat, WithNoResponseFormat, WithTemperature, WithTopP, WithOptions
\* applied to ChatOptions
WithControls(o, format, noFormat, temperature, topP, options) ==
    [o EXCEPT !.Format = format, !.NoResponseFormat = noFormat,
              !.Temperature = temperature, !.TopP = topP, !.Options = options]

World(doErr, status, events, trunc, body, tail, chunks, sdkErr) ==
    [doErr |-> doErr, status |-> status, events |-> events, trunc |-> trunc,
     body |-> body, tail |-> tail, chunks |-> chunks, sdkErr |-> sdkErr]

Chunk(choices, thinking) == [choices |-> choices, thinking |-> thinking]

NameMenu ==
    { <<>>, S_ollama, S_openai, S_gemini, <<" ", "G", "e", "m", "i", "n", "i">>,
      <<"O", "P", "E", "N", "A", "I", " ">>, <<"c", "l", "a", "u", "d", "e">>,
      <<"g", "e", "m", "i", "n", "i", "2">> }

APIKeyMenu   == { <<>>, <<" ">>, <<"K">>, <<" ", "K", "&">> }
AuthTypeMenu == { <<>>, S_api_key, S_auth_token,
                  <<" ", "A", "U", "T", "H", "_", "T", "O", "K", "E", "N">>,
                  <<"o", "a", "u", "t", "h">> }
BaseURLMenu  == { <<>>, <<"http://h", "/">>, <<"http://h", "/", "v1">>,
                  <<"http://h", "?", "x=1">> }

ModelMenu    == { <<>>, <<" ">>, <<"m">> }
FailAtMenu   == {0, 1, 2}

DefaultNewIn == NewIn(S_gemini, <<"K">>, <<>>, <<>>, TRUE)
DefaultOpts  == Opts(<<"m">>, <<"p">>, TRUE, FALSE, 0)
OneChunkLF   == Item("lf", <<"cand", "Hel">>)
DefaultWorld == World(FALSE, 200, <<OneChunkLF>>, "full", WireOf(<<OneChunkLF>>, "full"),
                      "eof", <<Chunk(<< <<"H", "e", "l">> >>, <<>>)>>, "none")

\* every way to call Chat with a usable model
ChatOpts(streams) ==
    { Opts(<<"m">>, <<"p">>, st, FALSE, f) : st \in streams, f \in FailAtMenu }
      \cup { Opts(<<"m">>, <<"p">>, st, TRUE, 0) : st \in streams }

\* every way to call Chat, unusable models and prompts included
AllOpts ==
    { Opts(m, <<"p">>, st, FALSE, 0) : m \in ModelMenu, st \in BOOLEAN }
      \cup { Opts(<<"m">>, <<" ">>, st, FALSE, 0) : st \in BOOLEAN }

\* SSE items of the full wire menu
SSEItems ==
    { OneChunkLF,
      Item("crlf", <<"cand", "nil", "lo">>),
      Item("split", <<"cand", "Hel", "cand", "lo">>),
      Item("done", <<>>),
      Item("noisy", <<"cand", "lo">>),
      Item("lf", <<"cand", "Hel", "err429">>),
      Item("garbage", <<>>) }

\* SSE items of the short wire menu
FewItems ==
    { OneChunkLF, Item("crlf", <<"cand", "nil", "lo">>),
      Item("split", <<"cand", "Hel", "cand", "lo">>), Item("lf", <<"err429">>) }

Truncs == {"full", "noblank", "unterminated"}

StreamWorlds(items, tails) ==
    { World(FALSE, 200, ev, tr, WireOf(ev, tr), tl, <<>>, "none") :
        ev \in SeqsUpTo(items, MaxEvents), tr \in Truncs, tl \in tails }

\* non-streaming bodies: one JSON object, possibly followed by more bytes,
\* possibly cut short
NonStreamWorlds ==
    { World(FALSE, 200, <<it>>, "full", <<"{">> \o it.doc \o <<"}">> \o rest, "eof", <<>>, "none") :
        it \in { OneChunkLF, Item("lf", <<"cand", "nil", "lo", "cand", "Hel">>),
                 Item("lf", <<"cand", "nil">>), Item("lf", <<>>) },
        rest \in { <<>>, <<"\n">>, <<"\n", "{", "cand", "lo", "}">> } }
      \cup { World(FALSE, 200, <<>>, "full", <<"{", "cand">>, tl, <<>>, "none") : tl \in {"eof", "err"} }

\* responses with an error status or one just below, and requests the
\* transport fails
FailureWorlds ==
    { World(FALSE, 429, <<>>, "full", <<"{", "err429", "}">>, "eof", <<>>, "none"),
      World(FALSE, 399, <<>>, "full", <<"{", "err500", "}">>, "eof", <<>>, "none"),
      World(FALSE, 400, <<>>, "full", <<"\n", "{", "cand", "Hel", "}", " ">>, "eof", <<>>, "none"),
      World(FALSE, 400, <<>>, "full", <<"{", "err500", "}", "\n">>, "eof", <<>>, "none"),
      World(FALSE, 500, <<>>, "full", <<" ", "d", "a", "\n">>, "eof", <<>>, "none"),
      World(FALSE, 404, <<>>, "full", <<"{", "}">>, "eof", <<>>, "none"),
      World(TRUE, 0, <<>>, "full", <<>>, "eof", <<>>, "none") }

OpenAIChunks ==
    { Chunk(<<>>, <<>>),
      Chunk(<< <<"H", "e", "l">> >>, <<>>),
      Chunk(<< <<" ", "l", "o">>, <<"H", "e", "l">> >>, <<>>),
      Chunk(<< <<" ">> >>, <<>>) }

OllamaChunks ==
    { Chunk(<< <<"H", "e", "l">> >>, <<>>),
      Chunk(<< <<" ", "l", "o">> >>, <<"h", "m">>),
      Chunk(<< <<>> >>, <<"h", "m">>),
      Chunk(<< <<>> >>, <<>>) }

SdkWorlds(chunks, lens) ==
    { World(FALSE, 200, <<>>, "full", <<>>, "eof", cs, e) :
        cs \in UNION {[1..k -> chunks] : k \in lens}, e \in {"none", "api", "other"} }

\* the context is cancelled while the request or the stream is in flight
GeminiCancelWorlds ==
    { World(TRUE, 0, <<>>, "full", <<>>, "cancel", <<>>, "none"),
      World(FALSE, 200, <<>>, "full", <<"{", "cand">>, "cancel", <<>>, "none") }
      \cup { World(FALSE, 200, ev, tr, WireOf(ev, tr), "cancel", <<>>, "none") :
               ev \in { <<>>, <<OneChunkLF>>,
                        <<OneChunkLF, Item("split", <<"cand", "Hel", "cand", "lo">>)>> },
               tr \in Truncs }

SdkCancelWorlds(chunks) ==
    { World(FALSE, 200, <<>>, "full", <<>>, "eof", cs, "cancel") :
        cs \in UNION {[1..k -> chunks] : k \in 0..1} }

Scenario(n, o, w) == [newIn |-> n, opts |-> o, world |-> w]

GeminiKeys == { NewIn(S_gemini, k, a, b, TRUE) :
                  k \in {<<"K">>, <<" ", "K", "&">>},
                  a \in AuthTypeMenu \ {<<"o", "a", "u", "t", "h">>},
                  b \in BaseURLMenu }

\* values of ChatOptions.Format: absent, the sentinel with and without
\* quotes and white space, schema objects, text that is not JSON, a number
FormatMenu ==
    { <<>>, S_json_quoted, <<"json">>, <<" ">> \o S_json_quoted \o <<"\n">>,
      <<"{", "schema", "}">>, <<" ", "{", "}">>, <<"{", "schema">>, <<"schema">>,
      <<"7">>, <<"null">> }

OptionsMenu ==
    { {}, {Entry("topK", Val("int", 40, <<>>))}, {Entry("top_k", Val("string", 0, <<" ", "4", "0">>))},
      {Entry("topK", Val("string", 0, <<"x">>)), Entry("top_k", Val("float", 75, <<>>))},
      {Entry("temperature", Val("float", 9, <<>>))}, {Entry("topK", Val("bool", 1, <<>>))} }

\* a backend that answers a non-streaming call with one text
OneShotWorld ==
    World(FALSE, 200, <<OneChunkLF>>, "full", <<"{">> \o OneChunkLF.doc \o <<"}">>,
          "eof", <<Chunk(<< <<" ", "H", "e", "l">> >>, <<>>)>>, "none")

\* calls that differ in the optional controls only
ControlOpts(streams) ==
    { WithControls(Opts(<<"m">>, <<"p">>, st, FALSE, 0), f, nf, t, 0, {}) :
        st \in streams, f \in FormatMenu, nf \in BOOLEAN, t \in {0, 7} }
      \cup
    { WithControls(Opts(<<"m">>, <<"p">>, st, FALSE, 0), <<>>, nf, t, p, x) :
        st \in streams, nf \in BOOLEAN, t \in {0, 7}, p \in {0, 9}, x \in OptionsMenu }

Scenarios ==
    \* the optional controls on every backend
    { Scenario(n, o, OneShotWorld) :
        n \in {DefaultNewIn, NewIn(S_openai, <<"K">>, <<>>, <<>>, TRUE),
                NewIn(S_ollama, <<>>, <<>>, <<>>, TRUE)},
        o \in ControlOpts({FALSE}) } \cup
    \* construction, whatever the name and the configuration
    { Scenario(NewIn(n, k, a, b, e), DefaultOpts, DefaultWorld) :
        n \in NameMenu, k \in APIKeyMenu, a \in AuthTypeMenu,
        b \in {<<>>, <<"http://h", "/">>}, e \in BOOLEAN }
    \* Gemini requests, whatever the client and the options
      \cup { Scenario(n, o, DefaultWorld) : n \in GeminiKeys, o \in AllOpts }
    \* Gemini responses
      \cup { Scenario(DefaultNewIn, o, w) :
               o \in ChatOpts({TRUE}), w \in StreamWorlds(FewItems, {"eof", "err"}) }
      \cup { Scenario(DefaultNewIn, o, w) : o \in ChatOpts({FALSE}), w \in NonStreamWorlds }
      \cup { Scenario(DefaultNewIn, o, w) : o \in ChatOpts(BOOLEAN), w \in FailureWorlds }
    \* cancellation on every backend
      \cup { Scenario(DefaultNewIn, o, w) : o \in ChatOpts(BOOLEAN), w \in GeminiCancelWorlds }
      \cup { Scenario(NewIn(S_openai, <<"K">>, <<>>, <<>>, TRUE), o, w) :
               o \in ChatOpts(BOOLEAN), w \in SdkCancelWorlds(OpenAIChunks) }
      \cup { Scenario(NewIn(S_ollama, <<>>, <<>>, <<>>, TRUE), o, w) :
               o \in ChatOpts(BOOLEAN), w \in SdkCancelWorlds(OllamaChunks) }
    \* OpenAI and Ollama calls
      \cup { Scenario(NewIn(S_openai, <<"K">>, <<>>, <<>>, TRUE), o, w) :
               o \in ChatOpts({TRUE}) \cup {Opts(<<>>, <<"p">>, TRUE, FALSE, 0)},
               w \in SdkWorlds(OpenAIChunks, 0..MaxEvents) }
      \cup { Scenario(NewIn(S_openai, <<"K">>, <<>>, <<>>, TRUE), o, w) :
               o \in ChatOpts({FALSE}) \cup {Opts(<<>>, <<"p">>, FALSE, FALSE, 0)},
               w \in SdkWorlds(OpenAIChunks, {1}) }
      \cup { Scenario(NewIn(S_ollama, <<>>, <<>>, <<>>, TRUE), o, w) :
               o \in ChatOpts(BOOLEAN) \cup {Opts(<<>>, <<"p">>, TRUE, FALSE, 0)},
               w \in SdkWorlds(OllamaChunks, 0..MaxEvents) }

\* a Chat call that has not started: its options, its response, its locals
Call(o, w) ==
    [opts |-> o, world |-> w, pc |-> "ready", requests |-> <<>>,
     res |-> [acquired |-> 0, closes |-> 0, deferred |-> FALSE],
     pos |-> 0, rbuf |-> <<>>, dataBuf |-> <<>>, emitQ |-> <<>>,
     after |-> "return", delivered |-> <<>>, ret |-> NoErr]

\* no DenormalizeBbox call is made
NoBbox == [in |-> <<>>, out |-> <<>>]

\* no NewChatOptions call is made
NoBuild == [at |-> "none", fns |-> <<>>, inputs |-> <<>>, maps |-> <<>>,
            co |-> DefaultOpts, Options |-> <<>>, merged |-> {}]

\* there is no second goroutine
NoCall == [Call(DefaultOpts, DefaultWorld) EXCEPT !.pc = "none"]

InitRest ==
    /\ other = NoCall
    /\ bbox = NoBbox
    /\ build = NoBuild
    /\ provider = NoProvider
    /\ newErr = NoErr
    /\ requests = <<>>
    /\ res = [acquired |-> 0, closes |-> 0, deferred |-> FALSE]
    /\ pos = 0
    /\ rbuf = <<>>
    /\ dataBuf = <<>>
    /\ emitQ = <<>>
    /\ after = "return"
    /\ delivered = <<>>
    /\ ret = NoErr

Init ==
    /\ \E sc \in Scenarios :
          /\ newIn = sc.newIn
          /\ opts = sc.opts
          /\ world = sc.world
    /\ pc = "new"
    /\ InitRest

(***************************************************************************)
(* Resources: resp.Body of the Gemini client, the SDK stream of the        *)
(* OpenAI client.  Both are acquired with their Close deferred.            *)
(***************************************************************************)
\* acquiring without deferring the Close
AcquireNoDefer(r) == [r EXCEPT !.acquired = @ + 1]

\* resp, err := g.client.Do(req); defer resp.Body.Close()
\* stream := NewStreaming(ctx, params); defer stream.Close()
Acquire(r) == [r EXCEPT !.acquired = @ + 1, !.deferred = TRUE]

\* the deferred calls that run when Chat returns
RunDefers(r) ==
    IF r.deferred THEN [r EXCEPT !.closes = @ + 1, !.deferred = FALSE] ELSE r

(***************************************************************************)
(* Steps shared by the clients.                                            *)
(***************************************************************************)
\* Chat returns e
Return(e) ==
    /\ pc' = "done"
    /\ ret' = e
    /\ res' = RunDefers(res)

\* the emit loop is through: go on where the call was
Continue(aft) ==
    IF aft = "return"
    THEN Return(NoErr) /\ UNCHANGED dataBuf
    ELSE /\ pc' = aft
         /\ dataBuf' = <<>>     \* dataBuf.Reset() after a dispatch of the read loop
         /\ UNCHANGED <<ret, res>>

\* run the emit loop over calls: enter onDelta for the first of them
Deliver(calls, aft) ==
    IF calls = <<>>
    THEN Continue(aft) /\ UNCHANGED <<delivered, emitQ, after>>
    ELSE /\ pc' = "cb"
         /\ delivered' = Append(delivered, Head(calls))
         /\ emitQ' = Tail(calls)
         /\ after' = aft
         /\ UNCHANGED <<ret, res, dataBuf>>

\* an emit loop that wraps the error of the callback
EmitResultWrapped(e) == IF e = NoErr THEN e ELSE Wrap("providers: onDelta", e)

\* if err := onDelta(...); err != nil { return err }: what the emit loops
\* return for the error e of the callback
EmitResult(e) == e

\* onDelta returns: an error ends the call with that error, nil goes on
\* with the next call of the loop
CallbackReturn ==
    /\ pc = "cb"
    /\ LET e == EmitResult(onDeltaOrNoop(opts, Len(delivered))) IN
       IF e # NoErr
       THEN Return(e) /\ UNCHANGED <<delivered, emitQ, after, dataBuf>>
       ELSE Deliver(emitQ, after)
    /\ UNCHANGED <<build, bbox, other, newIn, opts, world, provider, newErr, requests, pos, rbuf>>

\* providers.New
NewProvider ==
    /\ pc = "new"
    /\ LET r == New(newIn.name, newIn.cfg, newIn.envOK) IN
       /\ provider' = r.p
       /\ newErr' = r.err
       /\ pc' = IF r.err = NoErr THEN "ready" ELSE "failed"
    /\ UNCHANGED <<build, bbox, other, newIn, opts, world, requests, res, pos, rbuf, dataBuf, emitQ,
                   after, delivered, ret>>

(***************************************************************************)
(* Gemini.Chat                                                             *)
(***************************************************************************)
\* buildContents: the prompt part is there when the trimmed prompt is not
\* empty (the model passes no images)
HasContents(o) == TrimSpace(o.Prompt) # <<>>

\* a Chat that keeps the endpoint it built in the client's baseURL field
GeminiChatKeepingEndpoint ==
    /\ pc = "ready"
    /\ provider.kind = "gemini"
    /\ LET ep == buildEndpoint(provider, opts.Model, opts.Stream) IN
       IF TrimSpace(opts.Model) = <<>>
       THEN Return(Errorf("providers/gemini: model is required"))
            /\ UNCHANGED <<requests, provider>>
       ELSE IF ~HasContents(opts)
       THEN Return(Errorf("providers/gemini: prompt or images are required"))
            /\ UNCHANGED <<requests, provider>>
       ELSE /\ requests' = Append(requests,
                  newRequest(provider, ep.url, buildRequestBody(opts),
                             IF opts.Stream THEN "text/event-stream"
                                            ELSE "application/json"))
            /\ provider' = [provider EXCEPT !.baseURL = ep.url]
            /\ pc' = "do"
            /\ UNCHANGED <<ret, res>>
    /\ UNCHANGED <<build, bbox, other, newIn, opts, world, newErr, pos, rbuf, dataBuf,
                   emitQ, after, delivered>>

\* Chat up to g.client.Do(req) of stream / nonStream
GeminiChat ==
    /\ pc = "ready"
    /\ provider.kind = "gemini"
    /\ LET ep == buildEndpoint(provider, opts.Model, opts.Stream) IN
       IF TrimSpace(opts.Model) = <<>>
       THEN Return(Errorf("providers/gemini: model is required")) /\ UNCHANGED requests
       ELSE IF ~HasContents(opts)
       THEN Return(Errorf("providers/gemini: prompt or images are required"))
            /\ UNCHANGED requests
       ELSE IF ep.err # NoErr
       THEN Return(ep.err) /\ UNCHANGED requests
       ELSE /\ requests' = Append(requests,
                  newRequest(provider, ep.url, buildRequestBody(opts),
                             IF opts.Stream THEN "text/event-stream"
                                            ELSE "application/json"))
            /\ pc' = "do"
            /\ UNCHANGED <<ret, res>>
    /\ UNCHANGED <<build, bbox, other, newIn, opts, world, provider, newErr, pos, rbuf, dataBuf,
                   emitQ, after, delivered>>

\* a client that builds and sends the request again when Do fails
GeminiDoFailRetrying ==
    /\ pc = "do"
    /\ world.doErr
    /\ pc' = "ready"
    /\ UNCHANGED <<build, bbox, other, newIn, opts, world, provider, newErr, requests, pos, rbuf,
                   dataBuf, emitQ, after, delivered, ret, res>>

\* g.client.Do fails: no response, nothing to close
GeminiDoFail ==
    /\ pc = "do"
    /\ world.doErr
    /\ Return(Wrap(IF opts.Stream THEN "providers/gemini: stream request failed"
                                  ELSE "providers/gemini: request failed",
                   IOErr(world.tail, "dial")))
    /\ UNCHANGED <<build, bbox, other, newIn, opts, world, provider, newErr, requests, pos, rbuf,
                   dataBuf, emitQ, after, delivered>>

\* g.client.Do returns a response; its body is closed on return
GeminiDoRespond ==
    /\ pc = "do"
    /\ ~world.doErr
    /\ res' = Acquire(res)
    /\ pc' = "resp"
    /\ UNCHANGED <<build, bbox, other, newIn, opts, world, provider, newErr, requests, pos, rbuf,
                   dataBuf, emitQ, after, delivered, ret>>

\* checkGeminiResponse, then readSSEStream (stream) or Decode and
\* emitGeminiCandidates (nonStream)
GeminiCheck ==
    /\ pc = "resp"
    /\ LET e   == checkGeminiResponse(world.status, world.body)
           out == DecodeFirst(world.body)
       IN  IF e # NoErr
           THEN Return(e) /\ UNCHANGED <<delivered, emitQ, after, dataBuf>>
           ELSE IF opts.Stream
           THEN /\ pc' = "read"
                /\ UNCHANGED <<ret, res, delivered, emitQ, after, dataBuf>>
           ELSE IF ~out.ok
           THEN Return(Wrap("providers/gemini: decode response",
                            DecodeError(world.body, world.tail)))
                /\ UNCHANGED <<delivered, emitQ, after, dataBuf>>
           ELSE Deliver(emitGeminiCandidates(out.cands), "return")
    /\ UNCHANGED <<build, bbox, other, newIn, opts, world, provider, newErr, requests, pos, rbuf>>

(***************************************************************************)
(* readSSEStream: bufio.Reader.ReadString('\n') over the response body.    *)
(***************************************************************************)
\* ReadString that hands out whatever one physical read brought
ReadStringPerRead(buf) ==
    LET i == IndexByte(buf, "\n") IN
    [found |-> buf # <<>>,
     line  |-> IF i # 0 THEN SubSeq(buf, 1, i) ELSE buf,
     rest  |-> IF i # 0 THEN SubSeq(buf, i + 1, Len(buf)) ELSE <<>>]

\* ReadString on the buffered bytes: the line up to and including the first
\* '\n' when there is one
ReadString(buf) ==
    LET i == IndexByte(buf, "\n") IN
    [found |-> i # 0, line |-> SubSeq(buf, 1, i), rest |-> SubSeq(buf, i + 1, Len(buf))]

\* the sizes of the next physical read: a few bytes, or all that is left
ReadSizes == (1..MaxRead) \cup {Len(world.body) - pos}

\* a read that goes on filling the buffer while onDelta is running
FillAhead(n) ==
    /\ pc \in {"read", "cb"}
    /\ ~ReadString(rbuf).found
    /\ n >= 1
    /\ pos + n <= Len(world.body)
    /\ rbuf' = rbuf \o SubSeq(world.body, pos + 1, pos + n)
    /\ pos' = pos + n
    /\ UNCHANGED <<build, bbox, other, newIn, opts, world, pc, provider, newErr, requests, res,
                   dataBuf, emitQ, after, delivered, ret>>

\* no complete line is buffered: one physical read of n bytes
Fill(n) ==
    /\ pc = "read"
    /\ ~ReadString(rbuf).found
    /\ n >= 1
    /\ pos + n <= Len(world.body)
    /\ rbuf' = rbuf \o SubSeq(world.body, pos + 1, pos + n)
    /\ pos' = pos + n
    /\ UNCHANGED <<build, bbox, other, newIn, opts, world, pc, provider, newErr, requests, res,
                   dataBuf, emitQ, after, delivered, ret>>

\* ReadString returns a line: processSSELine
ReadLine ==
    /\ pc = "read"
    /\ ReadString(rbuf).found
    /\ rbuf' = ReadString(rbuf).rest
    /\ LET r == processSSELine(ReadString(rbuf).line, dataBuf)
           d == dispatchSSEData(r.buf)
       IN  IF r.act # "dispatch"
           THEN /\ dataBuf' = r.buf
                /\ UNCHANGED <<pc, ret, res, delivered, emitQ, after>>
           ELSE IF d.kind = "err"
           THEN Return(d.err) /\ UNCHANGED <<delivered, emitQ, after, dataBuf>>
           ELSE Deliver(d.calls, "read")
    /\ UNCHANGED <<build, bbox, other, newIn, opts, world, provider, newErr, requests, pos>>

\* ReadString returns io.EOF (with the unterminated rest of the body, which
\* readSSEStream drops): handleSSEReadError
ReadEOF ==
    /\ pc = "read"
    /\ ~ReadString(rbuf).found
    /\ pos = Len(world.body)
    /\ world.tail = "eof"
    /\ LET d == dispatchSSEData(dataBuf) IN
       IF Len(dataBuf) = 0
       THEN Return(NoErr) /\ UNCHANGED <<delivered, emitQ, after, dataBuf>>
       ELSE IF d.kind = "err"
       THEN Return(d.err) /\ UNCHANGED <<delivered, emitQ, after, dataBuf>>
       ELSE Deliver(d.calls, "return")
    /\ UNCHANGED <<build, bbox, other, newIn, opts, world, provider, newErr, requests, pos, rbuf>>

\* handleSSEReadError dispatching the buffered event before any read error
ReadFailDispatching ==
    /\ pc = "read"
    /\ ~ReadString(rbuf).found
    /\ pos = Len(world.body)
    /\ world.tail # "eof"
    /\ IF dispatchSSEData(dataBuf).kind = "emit"
       THEN Deliver(dispatchSSEData(dataBuf).calls, "return")
       ELSE /\ Return(Wrap("providers/gemini: read stream",
                           IOErr(world.tail, "connection reset")))
            /\ UNCHANGED <<dataBuf, emitQ, after, delivered>>
    /\ UNCHANGED <<build, bbox, other, newIn, opts, world, provider, newErr, requests, pos,
                   rbuf>>

\* ReadString returns another error (the connection broke, or the context
\* was cancelled while the read was waiting): handleSSEReadError wraps it
ReadFail ==
    /\ pc = "read"
    /\ ~ReadString(rbuf).found
    /\ pos = Len(world.body)
    /\ world.tail # "eof"
    /\ Return(Wrap("providers/gemini: read stream",
                   IOErr(world.tail, "connection reset")))
    /\ UNCHANGED <<build, bbox, other, newIn, opts, world, provider, newErr, requests, pos, rbuf,
                   dataBuf, emitQ, after, delivered>>

(***************************************************************************)
(* OpenAI.Chat and Ollama.Chat: the SDK issues the request and hands the   *)
(* decoded chunks over.                                                    *)
(***************************************************************************)
SdkRequest(api, params) ==
    [url |-> <<api>>, body |-> params, contentType |-> <<"application/json">>,
     accept |-> <<>>, authorization |-> <<>>]

\* OpenAI.Chat up to Completions.New / handleStreamingChat's NewStreaming
OpenAIChat ==
    /\ pc = "ready"
    /\ provider.kind = "openai"
    /\ requests' = Append(requests, SdkRequest("openai:chat/completions", OpenAIParams(opts)))
    /\ IF opts.Stream
       THEN /\ res' = Acquire(res)
            /\ pc' = "oa_stream"
       ELSE /\ pc' = "oa_wait"
            /\ UNCHANGED res
    /\ UNCHANGED <<build, bbox, other, newIn, opts, world, provider, newErr, pos, rbuf, dataBuf,
                   emitQ, after, delivered, ret>>

\* handleStreamingChat: stream.Next() delivers a chunk
OpenAIStreamNext ==
    /\ pc = "oa_stream"
    /\ pos < Len(world.chunks)
    /\ pos' = pos + 1
    /\ Deliver(OpenAIStreamCalls(world.chunks[pos + 1]), "oa_stream")
    /\ UNCHANGED <<build, bbox, other, newIn, opts, world, provider, newErr, requests, rbuf>>

\* handleStreamingChat: stream.Next() is false, stream.Err() decides
OpenAIStreamEnd ==
    /\ pc = "oa_stream"
    /\ pos = Len(world.chunks)
    /\ Return(formatOpenAIAPIError("providers/openai: streaming chat completion failed",
                                   world.sdkErr))
    /\ UNCHANGED <<build, bbox, other, newIn, opts, world, provider, newErr, requests, pos, rbuf,
                   dataBuf, emitQ, after, delivered>>

\* OpenAI.Chat after Completions.New returned
OpenAIResponse ==
    /\ pc = "oa_wait"
    /\ LET resp == world.chunks[1] IN
       IF world.sdkErr # "none"
       THEN Return(formatOpenAIAPIError("providers/openai: chat completion failed",
                                        world.sdkErr))
            /\ UNCHANGED <<delivered, emitQ, after, dataBuf>>
       ELSE IF Len(resp.choices) = 0
       THEN Return(Errorf("providers/openai: empty choices"))
            /\ UNCHANGED <<delivered, emitQ, after, dataBuf>>
       ELSE Deliver(OpenAIResponseCalls(resp), "return")
    /\ UNCHANGED <<build, bbox, other, newIn, opts, world, provider, newErr, requests, pos, rbuf>>

\* Ollama.Chat up to o.client.Chat(ctx, req, respFunc)
OllamaChat ==
    /\ pc = "ready"
    /\ provider.kind = "ollama"
    /\ requests' = Append(requests, SdkRequest("ollama:api/chat", OllamaRequest(opts)))
    /\ pc' = "ol_stream"
    /\ UNCHANGED <<build, bbox, other, newIn, opts, world, provider, newErr, res, pos, rbuf, dataBuf,
                   emitQ, after, delivered, ret>>

\* the SDK calls respFunc with a response
OllamaResponse ==
    /\ pc = "ol_stream"
    /\ pos < Len(world.chunks)
    /\ pos' = pos + 1
    /\ Deliver(OllamaCalls(world.chunks[pos + 1]), "ol_stream")
    /\ UNCHANGED <<build, bbox, other, newIn, opts, world, provider, newErr, requests, rbuf>>

\* o.client.Chat returns; Ollama.Chat returns its error as it is
OllamaEnd ==
    /\ pc = "ol_stream"
    /\ pos = Len(world.chunks)
    /\ Return(IF world.sdkErr = "none" THEN NoErr ELSE SdkError(world.sdkErr))
    /\ UNCHANGED <<build, bbox, other, newIn, opts, world, provider, newErr, requests, pos, rbuf,
                   dataBuf, emitQ, after, delivered>>

(***************************************************************************)
(* Specifications.                                                         *)
(***************************************************************************)
Next ==
    \/ NewProvider
    \/ GeminiChat
    \/ GeminiDoFail
    \/ GeminiDoRespond
    \/ GeminiCheck
    \/ \E n \in ReadSizes : Fill(n)
    \/ ReadLine
    \/ ReadEOF
    \/ ReadFail
    \/ CallbackReturn
    \/ OpenAIChat
    \/ OpenAIStreamNext
    \/ OpenAIStreamEnd
    \/ OpenAIResponse
    \/ OllamaChat
    \/ OllamaResponse
    \/ OllamaEnd

\* every backend, construction included
Spec == Init /\ [][Next]_vars

\* the Gemini streaming path over the full wire menu, from a constructed client
InitSSE ==
    /\ newIn = DefaultNewIn
    /\ opts \in { Opts(<<"m">>, <<"p">>, TRUE, FALSE, f) : f \in FailAtMenu }
    /\ world \in StreamWorlds(SSEItems, {"eof", "err"})
    /\ pc = "ready"
    /\ other = NoCall
    /\ bbox = NoBbox
    /\ build = NoBuild
    /\ provider = NewGemini(DefaultNewIn.cfg).p
    /\ newErr = NoErr
    /\ requests = <<>>
    /\ res = [acquired |-> 0, closes |-> 0, deferred |-> FALSE]
    /\ pos = 0
    /\ rbuf = <<>>
    /\ dataBuf = <<>>
    /\ emitQ = <<>>
    /\ after = "return"
    /\ delivered = <<>>
    /\ ret = NoErr

NextSSE ==
    \/ GeminiChat
    \/ GeminiDoRespond
    \/ GeminiCheck
    \/ \E n \in ReadSizes : Fill(n)
    \/ ReadLine
    \/ ReadEOF
    \/ ReadFail
    \/ CallbackReturn

SpecSSE == InitSSE /\ [][NextSSE]_vars

(***************************************************************************)
(* Two goroutines call Chat on the same Gemini client.  The client is      *)
(* shared; the options, the response and the locals of a call are its      *)
(* own.  The scheduler may switch between the goroutines at every step.    *)
(***************************************************************************)
\* the call of the running goroutine
Running ==
    [opts |-> opts, world |-> world, pc |-> pc, requests |-> requests, res |-> res,
     pos |-> pos, rbuf |-> rbuf, dataBuf |-> dataBuf, emitQ |-> emitQ,
     after |-> after, delivered |-> delivered, ret |-> ret]

\* the scheduler runs the other goroutine
Switch ==
    /\ other.pc \notin {"none", "done"}
    /\ other' = Running
    /\ opts' = other.opts
    /\ world' = other.world
    /\ pc' = other.pc
    /\ requests' = other.requests
    /\ res' = other.res
    /\ pos' = other.pos
    /\ rbuf' = other.rbuf
    /\ dataBuf' = other.dataBuf
    /\ emitQ' = other.emitQ
    /\ after' = other.after
    /\ delivered' = other.delivered
    /\ ret' = other.ret
    /\ UNCHANGED <<build, bbox, newIn, provider, newErr>>

PairClients ==
    { DefaultNewIn, NewIn(S_gemini, <<"K">>, S_auth_token, <<"http://h", "/">>, TRUE) }

PairOpts ==
    { Opts(<<"m">>, <<"p">>, TRUE, FALSE, 0), Opts(<<"m">>, <<"p">>, TRUE, FALSE, 1),
      Opts(<<"m">>, <<"p">>, FALSE, FALSE, 0) }

PairWorlds ==
    { World(FALSE, 200, ev, "full", WireOf(ev, "full"), "eof", <<>>, "none") :
        ev \in { <<OneChunkLF, Item("crlf", <<"cand", "nil", "lo">>)>>,
                 <<OneChunkLF, Item("lf", <<"err429">>)>> } }
      \cup { World(FALSE, 200, <<Item("lf", <<"cand", "lo", "Hel">>)>>, "full",
                   <<"{", "cand", "lo", "Hel", "}">>, "eof", <<>>, "none") }

InitPair ==
    /\ newIn \in PairClients
    /\ provider = NewGemini(newIn.cfg).p
    /\ newErr = NoErr
    /\ \E oa \in PairOpts, wa \in PairWorlds, ob \in PairOpts, wb \in PairWorlds :
          /\ opts = oa
          /\ world = wa
          /\ other = Call(ob, wb)
    /\ bbox = NoBbox
    /\ build = NoBuild
    /\ pc = "ready"
    /\ requests = <<>>
    /\ res = [acquired |-> 0, closes |-> 0, deferred |-> FALSE]
    /\ pos = 0
    /\ rbuf = <<>>
    /\ dataBuf = <<>>
    /\ emitQ = <<>>
    /\ after = "return"
    /\ delivered = <<>>
    /\ ret = NoErr

NextPair ==
    \/ Switch
    \/ GeminiChat
    \/ GeminiDoRespond
    \/ GeminiCheck
    \/ \E n \in ReadSizes : Fill(n)
    \/ ReadLine
    \/ ReadEOF
    \/ CallbackReturn

SpecPair == InitPair /\ [][NextPair]_vars

(***************************************************************************)
(* readSSEStream on a body that is buffered whole: the read loop as a      *)
(* function of the buffered bytes, the data buffer and the deliveries so   *)
(* far.                                                                    *)
(***************************************************************************)
\* the emit loop over calls, from the deliveries dl on
RECURSIVE CallAll(_, _, _)
CallAll(calls, dl, o) ==
    IF calls = <<>> THEN [dl |-> dl, err |-> NoErr]
    ELSE LET dl2 == Append(dl, Head(calls))
             e   == EmitResult(onDeltaOrNoop(o, Len(dl2)))
         IN  IF e # NoErr THEN [dl |-> dl2, err |-> e]
             ELSE CallAll(Tail(calls), dl2, o)

Outcome(dl, e) == [delivered |-> dl, ret |-> e]

RECURSIVE ReadBuffered(_, _, _, _, _)
ReadBuffered(buf, dbuf, dl, tail, o) ==
    LET rs == ReadString(buf)
        r  == processSSELine(rs.line, dbuf)
        d  == dispatchSSEData(IF rs.found THEN r.buf ELSE dbuf)
        c  == CallAll(d.calls, dl, o)
    IN  IF rs.found
        THEN IF r.act # "dispatch" THEN ReadBuffered(rs.rest, r.buf, dl, tail, o)
             ELSE IF d.kind = "err" THEN Outcome(dl, d.err)
             ELSE IF c.err # NoErr THEN Outcome(c.dl, c.err)
             ELSE ReadBuffered(rs.rest, <<>>, c.dl, tail, o)
        ELSE IF tail # "eof"
        THEN Outcome(dl, Wrap("providers/gemini: read stream",
                              IOErr(tail, "connection reset")))
        ELSE IF Len(dbuf) = 0 THEN Outcome(dl, NoErr)
        ELSE IF d.kind = "err" THEN Outcome(dl, d.err)
        ELSE Outcome(c.dl, c.err)

(***************************************************************************)
(* Claims.                                                                 *)
(***************************************************************************)
IsPrefix(a, b) == Len(a) <= Len(b) /\ SubSeq(b, 1, Len(a)) = a

Delta(c, t) == [content |-> c, thinking |-> t]

\* what each backend produced, as the client is to deliver it: Gemini text
\* parts that are not empty; OpenAI first-choice contents, trimmed, those
\* that trim to nothing left out; Ollama responses as they are
DeliverableGemini(w) ==
    LET ts == ProducedTexts(w.events) IN [i \in 1..Len(ts) |-> Delta(ts[i], <<>>)]

DeliverableOpenAIStream(w) ==
    LET kept == SelectSeq(w.chunks,
                    LAMBDA c : Len(c.choices) > 0 /\ TrimSpace(c.choices[1]) # <<>>)
    IN  [i \in 1..Len(kept) |-> Delta(TrimSpace(kept[i].choices[1]), <<>>)]

DeliverableOpenAIResponse(w) ==
    IF w.sdkErr = "none" /\ Len(w.chunks[1].choices) > 0
    THEN << Delta(TrimSpace(w.chunks[1].choices[1]), <<>>) >>
    ELSE <<>>

DeliverableOllama(w) ==
    [i \in 1..Len(w.chunks) |-> Delta(w.chunks[i].choices[1], w.chunks[i].thinking)]

Deliverable ==
    CASE provider.kind = "gemini" -> DeliverableGemini(world)
      [] provider.kind = "openai" ->
           IF opts.Stream THEN DeliverableOpenAIStream(world)
           ELSE DeliverableOpenAIResponse(world)
      [] provider.kind = "ollama" -> DeliverableOllama(world)
      [] OTHER -> <<>>

\* what each backend produced, byte for byte: every fragment that is not
\* empty, unchanged
ProducedRaw ==
    CASE provider.kind = "gemini" -> DeliverableGemini(world)
      [] provider.kind = "openai" ->
           LET cs   == IF opts.Stream THEN world.chunks
                       ELSE IF world.sdkErr = "none" THEN world.chunks ELSE <<>>
               kept == SelectSeq(cs, LAMBDA c : Len(c.choices) > 0 /\ c.choices[1] # <<>>)
           IN  [i \in 1..Len(kept) |-> Delta(kept[i].choices[1], <<>>)]
      [] provider.kind = "ollama" -> DeliverableOllama(world)
      [] OTHER -> <<>>

OneRead == ReadBuffered(world.body, <<>>, <<>>, world.tail, opts)

\* C2: SSE reconstruction does not depend on how the body is split into
\* physical reads: in the read loop, whatever has been read so far and
\* however it was split, going on with the rest in one read gives the
\* callbacks and the error of reading the whole body in one read, and so
\* does the finished call.
C2_ChunkIndependent ==
    /\ pc = "read" =>
          ReadBuffered(rbuf \o SubSeq(world.body, pos + 1, Len(world.body)),
                       dataBuf, delivered, world.tail, opts) = OneRead
    /\ (pc = "done" /\ requests # <<>>) => Outcome(delivered, ret) = OneRead

\* a physical read ended inside the data prefix of the second event
C2_Witness ==
    /\ pc = "read"
    /\ rbuf = <<"d", "a">>
    /\ Len(delivered) = 1
    /\ pos < Len(world.body)

\* C3: in a streaming Chat, when the callback returns an error the call
\* returns at once with exactly that error: no further delivery and no
\* further read in between, and nothing happens after the return.
C3_CallbackAbort ==
    [][ /\ pc # "done"
        /\ (pc = "cb" /\ opts.Stream /\ onDeltaOrNoop(opts, Len(delivered)) # NoErr)
              => /\ pc' = "done"
                 /\ ret' = CallbackErr
                 /\ delivered' = delivered
                 /\ pos' = pos
                 /\ rbuf' = rbuf ]_vars

\* the callback failed on the first fragment with stream input still unread
C3_Witness ==
    /\ pc = "done"
    /\ opts.Stream
    /\ provider.kind = "gemini"
    /\ ret = CallbackErr
    /\ Len(delivered) = 1
    /\ Len(DeliverableGemini(world)) > 1
    /\ pos < Len(world.body)

\* the events are all well-formed and the callback never fails
CleanRun ==
    /\ world.tail = "eof"
    /\ opts.OnDelta.failAt = 0
    /\ \A i \in 1..Len(world.events) : IsChunk(world.events[i]) \/ world.events[i].fr = "done"

\* C4 as stated: when the body ends without the blank line that closes the
\* last event, that event is still dispatched exactly once, and when nothing
\* is pending at end-of-input the reader returns nil without a dispatch: a
\* clean run delivers the fragments of every event, the last included, once
\* each and returns nil.
C4_AsStated ==
    (pc = "done" /\ requests # <<>> /\ CleanRun)
       => (ret = NoErr /\ delivered = DeliverableGemini(world))

\* the reader is about to dispatch the data buffer: a blank line closes the
\* event, or the input ends with the buffer not empty
AtDispatch ==
    /\ pc = "read"
    /\ \/ /\ ReadString(rbuf).found
          /\ TrimRightSet(ReadString(rbuf).line, {"\r", "\n"}) = <<>>
          /\ dataBuf # <<>>
       \/ /\ ~ReadString(rbuf).found
          /\ pos = Len(world.body)
          /\ world.tail = "eof"
          /\ dataBuf # <<>>

\* C5: dispatching an event whose trimmed payload is empty or is [DONE]
\* invokes no callback and raises no error: the reader goes on reading
\* with the buffer reset, or returns nil at end-of-input.
C5_NoopPayload ==
    [][ (AtDispatch /\ TrimSpace(dataBuf) \in {<<>>, DoneSentinel})
           => /\ delivered' = delivered
              /\ \/ pc' = "read" /\ dataBuf' = <<>>
                 \/ pc' = "done" /\ ret' = NoErr ]_vars

\* a [DONE] event went by before a chunk and the call came to a good end
C5_Witness ==
    /\ pc = "done"
    /\ ret = NoErr
    /\ Len(world.events) = 2
    /\ world.events[1].fr = "done"
    /\ Len(delivered) = 1

HasKeyParam(url) == \E j \in 1..Len(url) : url[j] = "key="

EnvelopeTok(body) ==
    LET b == TrimSpace(body) IN
    IF Len(b) = 3 /\ b[1] = "{" /\ b[3] = "}" /\ b[2] \in ErrToks THEN b[2] ELSE "none"

\* C7: a Gemini response with status 400 or more whose body is an error
\* envelope ends Chat, streaming or not, with the structured error of the
\* envelope: its code, its status token and its message, and no callback.
C7_StructuredError ==
    (/\ pc = "done"
     /\ provider.kind = "gemini"
     /\ res.acquired = 1
     /\ world.status >= 400
     /\ EnvelopeTok(world.body) # "none")
       => /\ ret = ErrorPayload(EnvelopeTok(world.body))
          /\ ret.code \in {429, 500}
          /\ ret.code = 429 => ret.status = "RESOURCE_EXHAUSTED"
          /\ delivered = <<>>

\* the 429 envelope on the streaming path
C7_Witness ==
    /\ pc = "done"
    /\ opts.Stream
    /\ world.status = 429
    /\ ret.code = 429
    /\ ret.status = "RESOURCE_EXHAUSTED"
    /\ ret.message = "quota"

\* C8 as stated: on every backend a Chat whose model is empty issues no
\* request and returns an error.
C8_AsStated ==
    opts.Model = <<>> => (requests = <<>> /\ (pc = "done" => ret # NoErr))

\* C9: a name that is none of the backend identifiers makes New fail at
\* once: an error, no provider, and no request or resource ever after.
C9_UnknownProvider ==
    (pc # "new" /\ ToLower(TrimSpace(newIn.name)) \notin {<<>>, S_ollama, S_openai, S_gemini})
       => /\ pc = "failed"
          /\ provider = NoProvider
          /\ newErr # NoErr
          /\ requests = <<>>
          /\ res.acquired = 0

C9_Witness ==
    /\ pc = "failed"
    /\ newIn.name = <<"c", "l", "a", "u", "d", "e">>
    /\ newErr = Errorf("unsupported provider")

\* C10: a Chat call acquires at most one response or stream; it is not
\* closed while the call is running, and when Chat has returned, whatever
\* the exit, it is closed exactly once with no Close left pending.
C10_Released ==
    /\ res.acquired <= 1
    /\ res.closes <= res.acquired
    /\ pc # "done" => res.closes = 0
    /\ pc = "done" => (res.closes = res.acquired /\ ~res.deferred)

\* the callback aborted a stream that still had input
C10_Witness ==
    /\ pc = "done"
    /\ ret = CallbackErr
    /\ res.acquired = 1
    /\ res.closes = 1
    /\ provider.kind = "openai"
    /\ pos < Len(world.chunks)

\* the call is waiting on the network and the context has been cancelled:
\* the next thing the code sees is the failure of that operation
AbortedByCancel ==
    \/ pc = "do" /\ world.doErr /\ world.tail = "cancel"
    \/ /\ pc = "resp" /\ ~opts.Stream /\ world.status = 200
       /\ world.tail = "cancel" /\ world.body = <<"{", "cand">>
    \/ /\ pc = "read" /\ ~ReadString(rbuf).found
       /\ pos = Len(world.body) /\ world.tail = "cancel"
    \/ pc = "oa_wait" /\ world.sdkErr = "cancel"
    \/ /\ pc \in {"oa_stream", "ol_stream"}
       /\ pos = Len(world.chunks) /\ world.sdkErr = "cancel"

C12_Backpressure ==
    [][ /\ Len(delivered') <= Len(delivered) + 1
        /\ delivered' # delivered
              => (pc' = "cb" /\ SubSeq(delivered', 1, Len(delivered)) = delivered)
        /\ pc = "cb"
              => /\ pos' = pos
                 /\ rbuf' = rbuf
                 /\ dataBuf' # dataBuf => dataBuf' = <<>>
                 /\ delivered' # delivered
                       => onDeltaOrNoop(opts, Len(delivered)) = NoErr ]_vars

\* the second invocation is running and part of the stream is still unread
C12_Witness ==
    /\ pc = "cb"
    /\ provider.kind = "gemini"
    /\ opts.Stream
    /\ Len(delivered) = 2
    /\ ~ReadString(rbuf).found
    /\ pos < Len(world.body)

\* C13 as stated: when Chat returns nil every fragment the backend produced
\* has been delivered, and when it returns an error the deliveries are a
\* prefix of the produced fragments.
C13_AsStated ==
    pc = "done" =>
       IF ret = NoErr THEN delivered = Deliverable ELSE IsPrefix(delivered, Deliverable)

\* Gemini.nonStream after a response of status 200, as a function of the
\* body: the callbacks made and the error returned
NonStreamOutcome(o, w) ==
    LET out == DecodeFirst(w.body)
        c   == CallAll(emitGeminiCandidates(out.cands), <<>>, o)
    IN  IF ~out.ok
        THEN Outcome(<<>>, Wrap("providers/gemini: decode response",
                                DecodeError(w.body, w.tail)))
        ELSE Outcome(c.dl, c.err)

\* what a call does when it is the only one on a client g: its request,
\* its callbacks and its result
AloneRequest(g, o) ==
    newRequest(g, buildEndpoint(g, o.Model, o.Stream).url, buildRequestBody(o),
               IF o.Stream THEN "text/event-stream" ELSE "application/json")

AloneOutcome(o, w) ==
    IF o.Stream THEN ReadBuffered(w.body, <<>>, <<>>, w.tail, o)
    ELSE NonStreamOutcome(o, w)

AsAlone(c) ==
    /\ c.pc \notin {"ready", "none"} => c.requests = <<AloneRequest(NewGemini(newIn.cfg).p, c.opts)>>
    /\ c.pc = "done" => Outcome(c.delivered, c.ret) = AloneOutcome(c.opts, c.world)

\* C14: two goroutines call Chat on one client.  No step of a call writes
\* a field of the client, and however the steps of the two calls are
\* interleaved, each call issues the request, makes the callbacks and
\* returns the error it does when it runs alone.
C14_ConcurrentCalls ==
    /\ [](AsAlone(Running) /\ AsAlone(other))
    /\ [][provider' = provider]_vars

\* both calls are in flight: one is inside its second callback, the other,
\* after its first callback, is between two reads
C14_Witness ==
    /\ pc = "cb"
    /\ Len(delivered) = 2
    /\ other.pc = "read"
    /\ Len(other.delivered) = 1
    /\ other.pos < Len(other.world.body)
    /\ other.world # world

(***************************************************************************)
(* Response-format negotiation (C15 to C18).  The request under            *)
(* judgement is the one the call issued.                                   *)
(***************************************************************************)
Issued == Len(requests) = 1 /\ provider.kind \in {"gemini", "openai", "ollama"}

\* the request carries no format constraint
NoFormatConstraint ==
    LET b == requests[1].body IN
    CASE provider.kind = "gemini" ->
           \/ b.generationConfig.isNil
           \/ /\ b.generationConfig.ResponseMimeType = <<>>
              /\ b.generationConfig.ResponseSchema = <<>>
      [] provider.kind = "openai" -> b.ResponseFormat.mode = "unset"
      [] OTHER -> b.Format = <<>>

\* the request selects structured-JSON output and carries no schema
FreeFormJSON ==
    LET b == requests[1].body IN
    CASE provider.kind = "gemini" ->
           /\ ~b.generationConfig.isNil
           /\ b.generationConfig.ResponseMimeType = <<"application/json">>
           /\ b.generationConfig.ResponseSchema = <<>>
      [] provider.kind = "openai" -> b.ResponseFormat = JSONObjectMode
      [] OTHER -> FALSE

\* C15 as stated: on every backend a call with NoResponseFormat set issues
\* a request that carries no format constraint, whatever opts.Format is.
C15_AsStated ==
    (Issued /\ opts.NoResponseFormat) => NoFormatConstraint

\* C16 as stated: with suppression off and the format absent or the
\* sentinel "json", the OpenAI request is in JSON-object mode and the Gemini
\* request has responseMimeType application/json and no responseSchema.
C16_AsStated ==
    ( /\ Issued /\ provider.kind \in {"gemini", "openai"}
      /\ ~opts.NoResponseFormat
      /\ (opts.Format = <<>> \/ TrimSpace(opts.Format) = S_json_quoted) )
    => FreeFormJSON

\* C17: with suppression off, a format value that is not JSON makes the
\* OpenAI and the Gemini request fall back to structured-JSON output without
\* a schema; the call issues its request and, when the backend answers with
\* a text, returns nil.
C17_FormatFallback ==
    ( /\ provider.kind \in {"gemini", "openai"} /\ pc \notin {"new", "ready"}
      /\ ~opts.NoResponseFormat
      /\ opts.Format # <<>> /\ JSONKind(opts.Format) = "invalid" )
    => /\ Issued
       /\ FreeFormJSON
       /\ (pc = "done" /\ world = OneShotWorld) => ret = NoErr

C17_Witness ==
    /\ provider.kind = "gemini" /\ pc = "done" /\ Issued /\ Len(delivered) = 1
    /\ opts.Format = <<"{", "schema">> /\ ~opts.NoResponseFormat

\* C18: with suppression off and a JSON object as the format value, the
\* OpenAI request is in strict JSON-schema mode with the schema name
\* dino_schema and that object as the schema, and the Gemini request has
\* that object as its responseSchema.
C18_SchemaMode ==
    ( /\ Issued /\ provider.kind \in {"gemini", "openai"}
      /\ ~opts.NoResponseFormat /\ JSONKind(opts.Format) = "object" )
    => LET b == requests[1].body IN
       IF provider.kind = "openai"
       THEN b.ResponseFormat =
              ResponseFormat("json_schema", "dino_schema", TRUE, JSONValue(opts.Format))
       ELSE /\ ~b.generationConfig.isNil
            /\ b.generationConfig.ResponseMimeType = <<"application/json">>
            /\ b.generationConfig.ResponseSchema = <<JSONValue(opts.Format)>>

C18_Witness ==
    /\ Issued /\ provider.kind = "openai" /\ ~opts.NoResponseFormat
    /\ opts.Format = <<" ", "{", "}">>
    /\ requests[1].body.ResponseFormat.mode = "json_schema"

(***************************************************************************)
(* Non-streaming calls (C19, C20).                                         *)
(***************************************************************************)
\* the backend answered 200 with a body that starts with one response object
OneObjectAnswer ==
    /\ ~world.doErr /\ world.status = 200 /\ Len(world.events) = 1
    /\ IsPrefix(<<"{">> \o world.events[1].doc \o <<"}">>, world.body)

\* C19: a Gemini non-streaming call issues one request and decodes one
\* response object; the callback is invoked once for every text part that
\* is not empty, candidate by candidate and part by part, up to the first
\* invocation that returns an error.  One candidate with one text part
\* gives exactly one invocation with that text.
C19_GeminiNonStream ==
    (provider.kind = "gemini" /\ ~opts.Stream) =>
       /\ Len(requests) <= 1
       /\ (pc = "done" /\ OneObjectAnswer) =>
            LET exp == DeliverableGemini(world)
                f   == opts.OnDelta.failAt
            IN  /\ Len(requests) = 1
                /\ IF ~opts.OnDelta.isNil /\ f \in 1..Len(exp)
                   THEN delivered = SubSeq(exp, 1, f) /\ ret # NoErr
                   ELSE delivered = exp /\ ret = NoErr
       /\ (pc = "done" /\ OneObjectAnswer /\ world.events[1] = OneChunkLF
             /\ opts.OnDelta.failAt = 0) =>
            delivered = << Delta(<<"H", "e", "l">>, <<>>) >>

C19_Witness ==
    /\ provider.kind = "gemini" /\ ~opts.Stream /\ pc = "done" /\ OneObjectAnswer
    /\ Len(world.body) > Len(world.events[1].doc) + 3
    /\ delivered = << Delta(<<"l", "o">>, <<>>), Delta(<<"H", "e", "l">>, <<>>) >>

\* C20: an OpenAI non-streaming call whose response has no choices returns
\* an error and never invokes the callback; a response with choices gives
\* exactly one invocation, with the trimmed content of the first choice,
\* and the call returns what that invocation returned.
C20_OpenAINonStream ==
    ( /\ provider.kind = "openai" /\ ~opts.Stream /\ pc = "done"
      /\ world.sdkErr = "none" ) =>
    LET resp == world.chunks[1] IN
    /\ Len(requests) = 1
    /\ IF Len(resp.choices) = 0
       THEN /\ ret = Errorf("providers/openai: empty choices")
            /\ delivered = <<>>
       ELSE /\ delivered = << Delta(TrimSpace(resp.choices[1]), <<>>) >>
            /\ ret = IF ~opts.OnDelta.isNil /\ opts.OnDelta.failAt = 1
                     THEN CallbackErr ELSE NoErr

\* a response with two choices: one invocation, the first choice trimmed,
\* and the error of that invocation returned
C20_Witness ==
    /\ provider.kind = "openai" /\ ~opts.Stream /\ pc = "done"
    /\ world.sdkErr = "none" /\ Len(world.chunks[1].choices) = 2
    /\ world.chunks[1].choices[1] = <<" ", "l", "o">>
    /\ delivered = << Delta(<<"l", "o">>, <<>>) >>
    /\ ret = CallbackErr

(***************************************************************************)
(* OpenAI streaming (C21).                                                 *)
(***************************************************************************)
\* the invocations due for the first n chunks of the stream
DueAfter(n) ==
    DeliverableOpenAIStream([world EXCEPT !.chunks = SubSeq(world.chunks, 1, n)])

\* C21: in OpenAI streaming the callback invocations are, in order, one per
\* chunk iterated so far that has a choice whose trimmed content is not
\* empty, and none for any other chunk; the loop stops at the first
\* invocation that returns an error; when the stream ends with an error
\* after the loop, Chat returns an error that wraps it.
C21_OpenAIStreaming ==
    (provider.kind = "openai" /\ opts.Stream) =>
       /\ pc = "oa_stream" => delivered = DueAfter(pos)
       /\ pc = "cb" => /\ pos >= 1
                       /\ delivered = DueAfter(pos)
                       /\ DueAfter(pos) # DueAfter(pos - 1)
       /\ pc = "done" =>
            LET f == opts.OnDelta.failAt IN
            IF ~opts.OnDelta.isNil /\ f \in 1..Len(DueAfter(Len(world.chunks)))
            THEN delivered = SubSeq(DueAfter(Len(world.chunks)), 1, f)
                 /\ ret = CallbackErr
            ELSE /\ delivered = DueAfter(Len(world.chunks))
                 /\ (world.sdkErr = "none") = (ret = NoErr)
                 /\ world.sdkErr # "none" =>
                      /\ ret.kind \in {"wrapped", "wrapped_detail"}
                      /\ ret.label = "providers/openai: streaming chat completion failed"
                      /\ ret.cause = SdkError(world.sdkErr).cause

\* two chunks, the second one white space only, then the stream fails
C21_Witness ==
    /\ provider.kind = "openai" /\ opts.Stream /\ pc = "done"
    /\ Len(world.chunks) = 2 /\ world.chunks[2].choices = << <<" ">> >>
    /\ world.sdkErr = "other"
    /\ Len(delivered) = 1 /\ ret.kind = "wrapped"

(***************************************************************************)
(* The Gemini SSE reader (C22, C23).                                       *)
(***************************************************************************)
HasErrTok(it) == \E i \in 1..Len(it.doc) : it.doc[i] \in ErrToks

\* the first event that carries an error object, 0 when there is none
FirstErrorEvent ==
    IF \E i \in 1..Len(world.events) : HasErrTok(world.events[i])
    THEN CHOOSE i \in 1..Len(world.events) :
            /\ HasErrTok(world.events[i])
            /\ \A j \in 1..(i - 1) : ~HasErrTok(world.events[j])
    ELSE 0

\* the stream reaches the dispatch of its first error event: the events
\* before it are well formed, their callbacks all return nil and the event
\* is closed by its blank line, or by the end of the body after a data line
\* that has its end-of-line
ErrorEventDispatched ==
    LET i      == FirstErrorEvent
        before == SubSeq(world.events, 1, i - 1)
    IN  /\ i > 0
        /\ \A j \in 1..(i - 1) : world.events[j].fr # "garbage"
        /\ i = Len(world.events) =>
              \/ world.trunc = "full"
              \/ world.trunc = "noblank" /\ world.tail = "eof"
        /\ opts.OnDelta.failAt \notin 1..Len(ProducedTexts(before))

\* C22: in the Gemini SSE reader a dispatched payload with an embedded
\* error object ends the stream: Chat returns that error, the callback is
\* invoked for none of the payload's candidates and for no later event.
C22_EmbeddedError ==
    ( /\ provider.kind = "gemini" /\ opts.Stream /\ pc = "done"
      /\ ~world.doErr /\ world.status = 200 /\ ErrorEventDispatched ) =>
    LET i   == FirstErrorEvent
        doc == world.events[i].doc
        ts  == ProducedTexts(SubSeq(world.events, 1, i - 1))
    IN  /\ ret = LastError(doc)
        /\ ret.kind = "upstream"
        /\ delivered = [k \in 1..Len(ts) |-> Delta(ts[k], <<>>)]

\* an error event that carries a candidate, followed by a text event
C22_Witness ==
    /\ provider.kind = "gemini" /\ opts.Stream /\ pc = "done"
    /\ Len(world.events) >= 2
    /\ FirstErrorEvent = 1 /\ world.events[1].doc[2] = "Hel"
    /\ world.events[2] = OneChunkLF
    /\ delivered = <<>> /\ ret.kind = "upstream" /\ ret.code = 429

\* the lines of a run of bytes, end-of-line markers left out
RECURSIVE LinesOf(_)
LinesOf(b) ==
    IF b = <<>> THEN <<>>
    ELSE LET i == IndexByte(b, "\n") IN
         IF i = 0 THEN <<b>>
         ELSE <<SubSeq(b, 1, i - 1)>> \o LinesOf(SubSeq(b, i + 1, Len(b)))

RECURSIVE JoinNL(_)
JoinNL(segs) ==
    IF segs = <<>> THEN <<>>
    ELSE IF Len(segs) = 1 THEN segs[1]
    ELSE segs[1] \o <<"\n">> \o JoinNL(Tail(segs))

RECURSIVE DropLeadingEmpty(_)
DropLeadingEmpty(segs) ==
    IF segs # <<>> /\ Head(segs) = <<>> THEN DropLeadingEmpty(Tail(segs)) ELSE segs

\* the trimmed remainders of the data lines of the event that is open after
\* the lines ls: the data lines behind the last blank line
OpenRemainders(ls) ==
    LET blanks == {i \in 1..Len(ls) : IsBlankLine(ls[i])}
        from   == IF blanks = {} THEN 0
                  ELSE CHOOSE i \in blanks : \A j \in blanks : j <= i
        data   == SelectSeq(SubSeq(ls, from + 1, Len(ls)),
                            LAMBDA l : HasPrefix(l, DataPrefix))
    IN  [i \in 1..Len(data) |-> TrimSpace(TrimPrefix(data[i], DataPrefix))]

\* the lines readSSEStream has taken from the reader; while a payload
\* dispatched by a blank line is with the callback, that blank line is left out
LinesTaken ==
    LET ls == LinesOf(SubSeq(world.body, 1, pos - Len(rbuf))) IN
    IF pc = "cb" /\ after = "read" THEN SubSeq(ls, 1, Len(ls) - 1) ELSE ls

InSSEReader == provider.kind = "gemini" /\ opts.Stream /\ pc \in {"read", "cb"}

\* C23 as stated: the buffer, and so the payload that is dispatched, is the
\* trimmed remainders of the data lines of the open event, in order, with
\* one newline between consecutive data lines; after a dispatch it is empty.
C23_AsStated ==
    InSSEReader => dataBuf = JoinNL(OpenRemainders(LinesTaken))

\* C23, amended: a data line adds its trimmed remainder behind a newline
\* when the buffer holds content and without one when it is empty, so the
\* payload is the remainders from the first one that is not empty on, joined
\* by single newlines; after a dispatch the buffer is empty.
C23_PayloadOfEvent ==
    InSSEReader => dataBuf = JoinNL(DropLeadingEmpty(OpenRemainders(LinesTaken)))

\* a payload of two data lines is with the callback, and the next event
\* starts from an empty buffer
C23_Witness ==
    /\ InSSEReader /\ pc = "cb" /\ after = "read"
    /\ Len(OpenRemainders(LinesTaken)) = 2
    /\ dataBuf = <<"{", "cand", "Hel", "cand", "\n", "lo", "}">>
    /\ Len(delivered) = 2

WithNilReturningCallback(o) == [o EXCEPT !.OnDelta = [isNil |-> FALSE, failAt |-> 0]]

\* C25: a call without a callback ends as the same call with a callback
\* that always returns nil: the whole response or stream is consumed and
\* the result is what the backend's output alone decides.
C25_NoCallback ==
    (opts.OnDelta.isNil /\ pc = "done" /\ requests # <<>>) =>
    CASE provider.kind = "gemini" ->
           (~world.doErr /\ world.status = 200) =>
             Outcome(delivered, ret) = AloneOutcome(WithNilReturningCallback(opts), world)
      [] provider.kind = "openai" ->
           /\ delivered = Deliverable
           /\ opts.Stream => pos = Len(world.chunks)
           /\ ret = IF world.sdkErr # "none"
                    THEN formatOpenAIAPIError(
                           IF opts.Stream
                           THEN "providers/openai: streaming chat completion failed"
                           ELSE "providers/openai: chat completion failed", world.sdkErr)
                    ELSE IF ~opts.Stream /\ Len(world.chunks[1].choices) = 0
                    THEN Errorf("providers/openai: empty choices")
                    ELSE NoErr
      [] OTHER ->
           /\ delivered = Deliverable
           /\ pos = Len(world.chunks)
           /\ (ret = NoErr) = (world.sdkErr = "none")

\* a stream of two events read to its end without a callback
C25_Witness ==
    /\ opts.OnDelta.isNil /\ pc = "done" /\ provider.kind = "gemini" /\ opts.Stream
    /\ Len(world.events) = 2 /\ pos = Len(world.body)
    /\ Len(delivered) = 2 /\ ret = NoErr

(***************************************************************************)
(* Construction without credentials (C26).                                 *)
(***************************************************************************)
\* C26 as stated: for the backends that authenticate with an API key
\* (OpenAI and Gemini), New with an empty or white-space-only key returns
\* an error and no client, and no request is ever issued.
C26_AsStated ==
    ( /\ pc # "new"
      /\ ToLower(TrimSpace(newIn.name)) \in {S_openai, S_gemini}
      /\ TrimSpace(newIn.cfg.APIKey) = <<>> )
    => /\ newErr # NoErr
       /\ provider = NoProvider
       /\ requests = <<>>

(***************************************************************************)
(* The Gemini generation configuration and endpoint (C27, C28).            *)
(***************************************************************************)
\* the options name a top-k value that converts to an integer
NamesTopK(o) ==
    \E e \in o.Options : e.k \in {"topK", "top_k"} /\ toInt(e.v) # <<>>

\* C27: the Gemini request leaves generationConfig out exactly when none of
\* its fields is set: no temperature, no top-p, no top-k, no response MIME
\* type and no response schema.  A configuration that is present carries
\* the temperature and the top-p of the call when they are not zero.
C27_ConfigOmitted ==
    (Issued /\ provider.kind = "gemini") =>
    LET cfg == requests[1].body.generationConfig IN
    /\ cfg.isNil <=> ( /\ opts.Temperature = 0 /\ opts.TopP = 0 /\ ~NamesTopK(opts)
                       /\ opts.NoResponseFormat )
    /\ ~cfg.isNil =>
         /\ \/ cfg.Temperature # <<>> \/ cfg.TopP # <<>> \/ cfg.TopK # <<>>
            \/ cfg.ResponseMimeType # <<>> \/ cfg.ResponseSchema # <<>>
         /\ cfg.Temperature = (IF opts.Temperature = 0 THEN <<>> ELSE <<opts.Temperature>>)
         /\ cfg.TopP = (IF opts.TopP = 0 THEN <<>> ELSE <<opts.TopP>>)
         /\ (cfg.TopK # <<>>) = NamesTopK(opts)
         /\ (cfg.ResponseMimeType # <<>>) = ~opts.NoResponseFormat

\* a request without generationConfig although the call has options
C27_Witness ==
    /\ Issued /\ provider.kind = "gemini"
    /\ requests[1].body.generationConfig.isNil
    /\ opts.Options # {} /\ opts.NoResponseFormat

\* how often the unit c occurs in s
Count(s, c) == Cardinality({i \in 1..Len(s) : s[i] = c})

\* {base}/models/{model} and the path of the preference
EndpointOf(g, o) ==
    TrimRightSet(g.baseURL, {"/"}) \o <<"/", "models", "/">>
      \o PathEscape(TrimSpace(o.Model))
      \o (IF o.Stream THEN <<":streamGenerateContent", "?", "alt=sse">>
                      ELSE <<":generateContent">>)

\* the URL of the request is the endpoint of the preference, followed in
\* query-key mode by the key behind '&' when the endpoint has a '?' and
\* behind '?' when it has none
URLAsBuilt ==
    LET ep == EndpointOf(provider, opts) IN
    requests[1].url =
      IF provider.authType = S_auth_token THEN ep
      ELSE ep \o <<IF Count(ep, "?") > 0 THEN "&" ELSE "?", "key=">>
              \o QueryEscape(provider.apiKey)

\* C28 as stated: the endpoint is {base}/models/{model} with
\* :streamGenerateContent?alt=sse exactly when streaming is requested and
\* with :generateContent and no alt parameter otherwise; in query-key mode
\* the key is joined with '&' when a query exists and with '?' otherwise,
\* so that the URL has exactly one '?'.
C28_AsStated ==
    (Issued /\ provider.kind = "gemini") =>
       /\ URLAsBuilt
       /\ provider.authType = S_api_key => Count(requests[1].url, "?") = 1

\* C28, amended: the same endpoint and the same join; the URL has exactly
\* one '?' in query-key mode when the base URL of the client has none (the
\* model is path-escaped and the key query-escaped, so they add none).
C28_Endpoint ==
    (Issued /\ provider.kind = "gemini") =>
       /\ URLAsBuilt
       /\ (provider.authType = S_api_key /\ Count(provider.baseURL, "?") = 0)
            => Count(requests[1].url, "?") = 1

\* a streaming request in query-key mode: the key comes behind '&'
C28_Witness ==
    /\ Issued /\ provider.kind = "gemini" /\ opts.Stream
    /\ provider.authType = S_api_key /\ provider.apiKey = <<"K", "&">>
    /\ Count(provider.baseURL, "?") = 0
    /\ SubSeq(requests[1].url, Len(requests[1].url) - 5, Len(requests[1].url))
         = <<"?", "alt=sse", "&", "key=", "K", "%26">>

(***************************************************************************)
(* internal/utils: DenormalizeBbox.                                        *)
(*                                                                         *)
(* The coordinates are parsed and scaled with shopspring/decimal, whose    *)
(* numbers are a math/big integer and a power of ten.  A Go int is 64 bits *)
(* wide and the interesting quotients need more digits than that, so an    *)
(* integer is written here as math/big holds it: a sign and a magnitude,   *)
(* the magnitude as its decimal digits, most significant first, without    *)
(* leading zeros (zero has no digits).                                     *)
(***************************************************************************)
\* a < b on magnitudes
NatLess(a, b) ==
    \/ Len(a) < Len(b)
    \/ /\ Len(a) = Len(b)
       /\ \E i \in 1..Len(a) : a[i] < b[i] /\ \A j \in 1..(i - 1) : a[j] = b[j]

\* a*j + b*k for small j and k, when that is not negative: the digits are
\* summed from the right with a carry, then the leading zeros are dropped
NatLin(a, j, b, k) ==
    LET RECURSIVE NatSum(_, _, _)
        NatSum(x, y, carry) ==
            IF carry = 0 /\ x = <<>> /\ y = <<>> THEN <<>>
            ELSE LET d == (IF x = <<>> THEN 0 ELSE x[Len(x)] * j)
                          + (IF y = <<>> THEN 0 ELSE y[Len(y)] * k) + carry
                 IN  NatSum(SubSeq(x, 1, Len(x) - 1), SubSeq(y, 1, Len(y) - 1),
                            d \div 10) \o <<d % 10>>
        s  == NatSum(a, b, 0)
        nz == { i \in 1..Len(s) : s[i] # 0 }
    IN  IF nz = {} THEN <<>>
        ELSE SubSeq(s, CHOOSE i \in nz : \A l \in nz : i <= l, Len(s))

\* a*b
RECURSIVE NatMul(_, _)
NatMul(a, b) ==
    IF b = <<>> THEN <<>>
    ELSE NatLin(NatMul(a, SubSeq(b, 1, Len(b) - 1)) \o <<0>>, 1, a, b[Len(b)])

\* quotient and remainder of a by b > 0, by long division from the left:
\* q and r are the quotient and the remainder of the first i digits of a,
\* and mult[c + 1] is c*b
NatDiv(a, b) ==
    LET mult == [c \in 1..11 |-> NatLin(b, c - 1, <<>>, 0)]
        RECURSIVE NatDivFrom(_, _, _)
        NatDivFrom(i, q, r) ==
            IF i = Len(a) THEN [q |-> q, r |-> r]
            ELSE LET cur == IF r = <<>> /\ a[i + 1] = 0 THEN <<>> ELSE r \o <<a[i + 1]>>
                     d   == CHOOSE c \in 0..9 :
                                ~NatLess(cur, mult[c + 1]) /\ NatLess(cur, mult[c + 2])
                 IN  IF d = 0
                     THEN NatDivFrom(i + 1, IF q = <<>> THEN q ELSE q \o <<0>>, cur)
                     ELSE NatDivFrom(i + 1, q \o <<d>>, NatLin(cur, 1, mult[d + 1], -1))
    IN  NatDivFrom(0, <<>>, <<>>)

\* an integer from its sign and magnitude
BigInt(neg, abs) == [neg |-> neg /\ abs # <<>>, abs |-> abs]

\* a - b on integers (a < b exactly when the difference is negative)
IntSub(a, b) ==
    IF a.neg # b.neg THEN BigInt(a.neg, NatLin(a.abs, 1, b.abs, 1))
    ELSE IF NatLess(a.abs, b.abs) THEN BigInt(~a.neg, NatLin(b.abs, 1, a.abs, -1))
    ELSE BigInt(a.neg, NatLin(a.abs, 1, b.abs, -1))

\* decimal.NewFromString without exponent notation: an optional sign, digits
\* and at most one '.'; the dot is taken out and counted into the exponent.
\* A string that does not parse gives the zero Decimal (the caller drops
\* the error).
NewFromString(value) ==
    LET dots      == { i \in 1..Len(value) : value[i] = "." }
        intString == SelectSeq(value, LAMBDA c : c # ".")
        signed    == intString # <<>> /\ Head(intString) \in {"+", "-"}
        body      == IF signed THEN Tail(intString) ELSE intString
        ok        == /\ Cardinality(dots) <= 1
                     /\ body # <<>>
                     /\ \A i \in 1..Len(body) : \E n \in 1..10 : Digits[n] = body[i]
        abs       == [i \in 1..Len(body) |->
                         (CHOOSE n \in 1..10 : Digits[n] = body[i]) - 1]
    IN  IF ok
        THEN [value |-> BigInt(Head(intString) = "-", NatLin(abs, 1, <<>>, 0)),
              exp   |-> IF dots = {} THEN 0
                        ELSE (CHOOSE i \in dots : TRUE) - Len(value)]
        ELSE [value |-> BigInt(FALSE, <<>>), exp |-> 0]

\* decimal.NewFromInt
NewFromInt(v) == [value |-> v, exp |-> 0]

\* Decimal.Mul
Mul(d, d2) ==
    [value |-> BigInt(d.value.neg # d2.value.neg, NatMul(d.value.abs, d2.value.abs)),
     exp   |-> d.exp + d2.exp]

\* Decimal.Div: DivRound to DivisionPrecision = 16 places.  QuoRem cuts the
\* quotient off after the 16th place; when twice the remainder reaches the
\* divisor the last place is moved one step away from zero.
Div(d, d2) ==
    LET e  == d.exp - d2.exp + 16
        aa == IF e < 0 THEN d.value.abs ELSE d.value.abs \o [i \in 1..e |-> 0]
        bb == IF e < 0 THEN d2.value.abs \o [i \in 1..(-e) |-> 0] ELSE d2.value.abs
        qr == NatDiv(aa, bb)
    IN  [value |-> BigInt(d.value.neg # d2.value.neg,
                          IF NatLess(NatLin(qr.r, 2, <<>>, 0), bb) THEN qr.q
                          ELSE NatLin(qr.q, 1, <<1>>, 1)),
         exp   |-> -16]

\* Decimal.IntPart: the value cut off at the decimal point, as an int64.
\* big.Int.Int64 keeps the low 64 bits of the magnitude, read as a two's
\* complement number, and negates that for a negative value.
IntPart(d) ==
    LET abs == IF d.exp < 0 THEN SubSeq(d.value.abs, 1, Len(d.value.abs) + d.exp)
               ELSE NatLin(d.value.abs \o [i \in 1..d.exp |-> 0], 1, <<>>, 0)
        two64 == <<1, 8, 4, 4, 6, 7, 4, 4, 0, 7, 3, 7, 0, 9, 5, 5, 1, 6, 1, 6>>
        two63 == <<9, 2, 2, 3, 3, 7, 2, 0, 3, 6, 8, 5, 4, 7, 7, 5, 8, 0, 8>>
        low == NatDiv(abs, two64).r
        v   == IF NatLess(low, two63) THEN BigInt(FALSE, low)
               ELSE BigInt(TRUE, NatLin(two64, 1, low, -1))
    IN  IF d.value.neg /\ v.abs # two63 THEN BigInt(~v.neg, v.abs) ELSE v

\* Clamp without its upper bound
ClampLowOnly(v, lo, hi) == IF IntSub(v, lo).neg THEN lo ELSE v

\* Clamp bounds v into [lo, hi]
Clamp(v, lo, hi) ==
    IF IntSub(v, lo).neg THEN lo
    ELSE IF IntSub(hi, v).neg THEN hi
    ELSE v

\* one coordinate: parsed, scaled by the image size, cut to an int (a 64-bit
\* platform)
Scaled(s, dim, scale) ==
    IntPart(Div(Mul(NewFromString(s), NewFromInt(dim)), NewFromInt(scale)))

\* normalize ordering: the smaller and the larger of a pair
Lo(a, b) == IF IntSub(b, a).neg THEN b ELSE a
Hi(a, b) == IF IntSub(b, a).neg THEN a ELSE b

\* maxX, maxY: dim - 1, and 0 when that is negative
MaxIndex(dim) ==
    IF IntSub(dim, BigInt(FALSE, <<1>>)).neg THEN BigInt(FALSE, <<>>)
    ELSE IntSub(dim, BigInt(FALSE, <<1>>))

\* the scaled coordinates put in order and clamped to the image
Box(x1, y1, x2, y2, maxX, maxY) ==
    << Clamp(Lo(x1, x2), BigInt(FALSE, <<>>), maxX),
       Clamp(Lo(y1, y2), BigInt(FALSE, <<>>), maxY),
       Clamp(Hi(x1, x2), BigInt(FALSE, <<>>), maxX),
       Clamp(Hi(y1, y2), BigInt(FALSE, <<>>), maxY) >>

\* DenormalizeBbox: <<x1, y1, x2, y2>>
DenormalizeBbox(x1s, y1s, x2s, y2s, width, height, scale) ==
    Box(Scaled(x1s, width, scale), Scaled(y1s, height, scale),
        Scaled(x2s, width, scale), Scaled(y2s, height, scale),
        MaxIndex(width), MaxIndex(height))

(***************************************************************************)
(* DenormalizeBbox is a pure function: its arguments are chosen in the     *)
(* initial state and one step applies it.                                  *)
(***************************************************************************)
\* small coordinates are the integers 0..MaxCoord, small images are up to
\* MaxDim pixels wide and high
MaxCoord == 3
MaxDim == 3

\* the arguments of a call: the coordinates as a model may answer them
\* (small integers, a negative number, a fraction, text that is no number,
\* nothing), small images and small scales; the calls of the package's
\* tests; coordinates and scales of seventeen and more digits, 10^19 being
\* more than an int64 holds
BboxInputs ==
    LET RECURSIVE NatOf(_)
        NatOf(n) == IF n = 0 THEN <<>> ELSE NatOf(n \div 10) \o <<n % 10>>
        GoInt(n) == BigInt(FALSE, NatOf(n))
        Itoa(a)  == IF a = <<>> THEN <<"0">> ELSE [i \in 1..Len(a) |-> Digits[a[i] + 1]]
        Pow10(k) == <<1>> \o [i \in 1..k |-> 0]
        BboxIn(x1s, y1s, x2s, y2s, width, height, scale) ==
            [x1s |-> x1s, y1s |-> y1s, x2s |-> x2s, y2s |-> y2s,
             width |-> width, height |-> height, scale |-> scale]
        CoordMenu ==
            { Itoa(NatOf(n)) : n \in 0..MaxCoord }
              \cup { <<"-", "1">>, <<"1", ".", "5">>, <<"x">>, <<>> }
    IN  { BboxIn(x1s, y1s, x2s, <<"1">>, GoInt(w), GoInt(h), GoInt(sc)) :
            x1s \in CoordMenu, x2s \in CoordMenu,
            y1s \in { <<"0">>, <<"2">>, <<"-", "1">> },
            w \in 1..MaxDim, h \in {1, MaxDim}, sc \in 1..(MaxCoord + 1) }
          \cup { BboxIn(Itoa(NatOf(t[1])), Itoa(NatOf(t[2])), Itoa(NatOf(t[3])),
                        Itoa(NatOf(t[4])), GoInt(t[5]), GoInt(t[6]), GoInt(1000)) :
                   t \in { <<0, 0, 999, 999, 1000, 1000>>,
                           <<0, 0, 999, 999, 1920, 1080>>,
                           <<800, 300, 200, 100, 1000, 500>>,
                           <<500, 500, 750, 750, 1920, 1080>> } }
          \cup { BboxIn(<<"1", "2", "0", "0">>, <<"-", "1", "0">>,
                        <<"2", "0", "0", "0">>, <<"1", "5", "0", "0">>,
                        GoInt(640), GoInt(480), GoInt(1000)) }
          \cup { BboxIn(x1s, y1s, x2s, <<"0">>, GoInt(w), GoInt(1), BigInt(FALSE, sc)) :
                   x1s \in { <<"0">>, <<"-">> \o Itoa(Pow10(19)) },
                   x2s \in { <<"1">>, Itoa(Pow10(16)), Itoa(Pow10(19)) },
                   y1s \in { <<"0">>, Itoa(Pow10(16)) },
                   w \in 1..2,
                   sc \in { <<1>>, <<2>> \o [i \in 1..15 |-> 0] \o <<1>> } }

\* the call returns
Denormalize ==
    /\ bbox.in # <<>>
    /\ bbox.out = <<>>
    /\ bbox' = [bbox EXCEPT !.out =
                   DenormalizeBbox(bbox.in.x1s, bbox.in.y1s, bbox.in.x2s, bbox.in.y2s,
                                   bbox.in.width, bbox.in.height, bbox.in.scale)]
    /\ UNCHANGED <<build, newIn, opts, world, pc, provider, newErr, requests, res, pos,
                   rbuf, dataBuf, emitQ, after, delivered, ret, other>>

InitBbox ==
    /\ bbox \in { [in |-> i, out |-> <<>>] : i \in BboxInputs }
    /\ build = NoBuild
    /\ newIn = DefaultNewIn
    /\ opts = DefaultOpts
    /\ world = DefaultWorld
    /\ pc = "new"
    /\ other = NoCall
    /\ provider = NoProvider
    /\ newErr = NoErr
    /\ requests = <<>>
    /\ res = [acquired |-> 0, closes |-> 0, deferred |-> FALSE]
    /\ pos = 0
    /\ rbuf = <<>>
    /\ dataBuf = <<>>
    /\ emitQ = <<>>
    /\ after = "return"
    /\ delivered = <<>>
    /\ ret = NoErr

SpecBbox == InitBbox /\ [][Denormalize]_vars

(***************************************************************************)
(* C29, C30: the pixel box DenormalizeBbox returns.                        *)
(***************************************************************************)
\* a <= b on integers
IntLeq(a, b) == ~IntSub(b, a).neg

\* C29: for width >= 1, height >= 1, scale > 0 and any four coordinates the
\* call returns 0 <= x1 <= x2 <= width-1 and 0 <= y1 <= y2 <= height-1;
\* swapped inputs are reordered (giving the corners in the other order
\* returns the same box) and out-of-range values are clamped.
C29_InBounds ==
    LET i    == bbox.in
        o    == bbox.out
        zero == BigInt(FALSE, <<>>)
        one  == BigInt(FALSE, <<1>>)
    IN  (/\ o # <<>>
         /\ IntLeq(one, i.width) /\ IntLeq(one, i.height) /\ IntLeq(one, i.scale))
        => /\ IntLeq(zero, o[1]) /\ IntLeq(o[1], o[3])
           /\ IntLeq(o[3], IntSub(i.width, one))
           /\ IntLeq(zero, o[2]) /\ IntLeq(o[2], o[4])
           /\ IntLeq(o[4], IntSub(i.height, one))
           /\ o = DenormalizeBbox(i.x2s, i.y2s, i.x1s, i.y1s,
                                  i.width, i.height, i.scale)

\* a call with both pairs swapped and values beyond both edges: x scales to
\* 6 and -2 on a width of 2, y to 6 and 3 on a height of 3
C29_Witness ==
    /\ bbox.in # <<>>
    /\ bbox.in.x1s = <<"3">> /\ bbox.in.x2s = <<"-", "1">>
    /\ bbox.in.y1s = <<"2">> /\ bbox.in.y2s = <<"1">>
    /\ bbox.in.width = BigInt(FALSE, <<2>>) /\ bbox.in.height = BigInt(FALSE, <<3>>)
    /\ bbox.in.scale = BigInt(FALSE, <<1>>)
    /\ bbox.out = << BigInt(FALSE, <<>>), BigInt(FALSE, <<2>>),
                     BigInt(FALSE, <<1>>), BigInt(FALSE, <<2>>) >>

\* an integer coordinate v >= 0 as the caller writes it: digits only
IsNatural(s) ==
    s # <<>> /\ \A n \in 1..Len(s) : \E c \in 1..10 : Digits[c] = s[n]

\* floor(v * dim / scale) for the coordinate text s
FloorScaled(s, dim, scale) ==
    BigInt(FALSE, NatDiv(NatMul(NewFromString(s).value.abs, dim.abs), scale.abs).q)

\* both coordinates of an axis are integers v with 0 <= v < scale
InScale(s1, s2, scale) ==
    /\ IsNatural(s1) /\ NatLess(NewFromString(s1).value.abs, scale.abs)
    /\ IsNatural(s2) /\ NatLess(NewFromString(s2).value.abs, scale.abs)

\* lo and hi are a and b in ascending order
Ordered(lo, hi, a, b) ==
    IF IntLeq(a, b) THEN lo = a /\ hi = b ELSE lo = b /\ hi = a

\* C30 as stated: integer coordinates v with 0 <= v < scale are mapped to
\* floor(v * width / scale) on the x axis and to floor(v * height / scale)
\* on the y axis.
C30_AsStated ==
    LET i == bbox.in
        o == bbox.out
    IN  o # <<>> =>
          /\ InScale(i.x1s, i.x2s, i.scale) =>
                Ordered(o[1], o[3], FloorScaled(i.x1s, i.width, i.scale),
                                    FloorScaled(i.x2s, i.width, i.scale))
          /\ InScale(i.y1s, i.y2s, i.scale) =>
                Ordered(o[2], o[4], FloorScaled(i.y1s, i.height, i.scale),
                                    FloorScaled(i.y2s, i.height, i.scale))

(***************************************************************************)
(* The Gemini SSE reader at the end of the input and on the lines it       *)
(* skips (C31, C32).                                                       *)
(***************************************************************************)
\* the body is read to its end and what is buffered has no end-of-line: the
\* next ReadString returns the buffered bytes together with io.EOF
AtEOF ==
    /\ provider.kind = "gemini" /\ opts.Stream /\ pc = "read"
    /\ ~ReadString(rbuf).found
    /\ pos = Len(world.body)
    /\ world.tail = "eof"

\* C31 as stated: a last data line that ends at end-of-input without its
\* end-of-line still contributes to a dispatched payload: when the input
\* ends in an unterminated data line, the payload made of the buffer and
\* that line is dispatched, so its first fragment goes to the callback.
C31_AsStated ==
    [][ (AtEOF /\ HasPrefix(rbuf, DataPrefix)) =>
           LET d == dispatchSSEData(processSSELine(rbuf, dataBuf).buf) IN
           (d.kind = "emit" /\ d.calls # <<>>)
              => delivered' = Append(delivered, Head(d.calls)) ]_vars

\* ReadString has a line for processSSELine that is no data line and does
\* not close an event: any other text, or a blank line while the buffer is
\* empty
AtIgnoredLine ==
    /\ provider.kind = "gemini" /\ opts.Stream /\ pc = "read"
    /\ ReadString(rbuf).found
    /\ LET line == TrimRightSet(ReadString(rbuf).line, {"\r", "\n"}) IN
       /\ ~HasPrefix(line, DataPrefix)
       /\ line # <<>> \/ dataBuf = <<>>

\* C32: a line that is neither a data line nor a blank line, and a blank
\* line that arrives while the buffer is empty, leave the buffer unchanged,
\* invoke no callback and cause no dispatch: the reader goes on reading.
C32_LineIgnored ==
    [][ AtIgnoredLine =>
           /\ dataBuf' = dataBuf
           /\ delivered' = delivered
           /\ emitQ' = emitQ
           /\ pc' = "read"
           /\ ret' = ret ]_vars

\* a field line and a line of white space have gone by between the data
\* line of an event and its blank line, and the payload is still buffered
C32_Witness ==
    /\ provider.kind = "gemini" /\ opts.Stream /\ pc = "read"
    /\ Len(LinesTaken) >= 4
    /\ SubSeq(LinesTaken, Len(LinesTaken) - 1, Len(LinesTaken))
         = << <<"i", "d", ":">>, <<" ", "\r">> >>
    /\ LinesTaken[Len(LinesTaken) - 3] = <<>>
    /\ dataBuf = <<"{", "cand", "lo", "}">>
    /\ delivered = <<>>

(***************************************************************************)
(* The status check of the Gemini client (C33).                            *)
(***************************************************************************)
\* the body is a structured error envelope: JSON with an error member
HasErrorMember(body) == Unmarshal(body).ok /\ Unmarshal(body).err # NoErr

\* C33: for a Gemini response with a status of 400 or more Chat returns an
\* error and invokes the callback zero times, and when the body is no
\* structured error envelope the error is the generic one, built from the
\* status code and the trimmed body; for a status below 400 the status
\* check yields no error: the call goes on to read the body.
C33_StatusCheck ==
    [][ (provider.kind = "gemini" /\ pc = "resp") =>
           /\ world.status >= 400 =>
                 /\ pc' = "done" /\ ret' # NoErr /\ delivered' = <<>>
                 /\ ~HasErrorMember(world.body) =>
                       /\ ret'.kind = "http"
                       /\ ret'.label = "providers/gemini: http"
                       /\ ret'.code = world.status
                       /\ ret'.body = TrimSpace(world.body)
           /\ world.status < 400 =>
                 /\ opts.Stream => pc' = "read"
                 /\ ret' = NoErr \/ ret'.label = "providers/gemini: decode response" ]_vars

\* a 500 whose body is text with white space around it
C33_Witness ==
    /\ provider.kind = "gemini" /\ pc = "done"
    /\ world.status = 500
    /\ ~HasErrorMember(world.body)
    /\ ret.kind = "http" /\ ret.code = 500
    /\ ret.body = <<"d", "a">> /\ ret.body # world.body
    /\ delivered = <<>>

(***************************************************************************)
(* Payloads the Gemini SSE reader cannot decode (C34).                     *)
(***************************************************************************)
\* C34: a dispatched payload that is not empty, not [DONE] and not the JSON
\* of a response object ends the stream with a decode error: Chat returns
\* it at once, the callback is not invoked for the payload and nothing is
\* read or delivered afterwards.
C34_DecodeError ==
    [][ /\ ( /\ AtDispatch
             /\ TrimSpace(dataBuf) \notin {<<>>, DoneSentinel}
             /\ ~Unmarshal(TrimSpace(dataBuf)).ok )
           => /\ pc' = "done"
              /\ ret' = Wrap("providers/gemini: decode stream chunk",
                             Err("json", "", 0, "", "syntax"))
              /\ delivered' = delivered
              /\ pos' = pos
        /\ pc = "done" => (pc' = "done" /\ delivered' = delivered /\ pos' = pos) ]_vars

\* an event that is not JSON came first and a text event behind it: the
\* call ended with the decode error and without a callback
C34_Witness ==
    /\ provider.kind = "gemini" /\ opts.Stream /\ pc = "done"
    /\ world.events = <<Item("garbage", <<>>), OneChunkLF>>
    /\ world.trunc = "full"
    /\ ret.label = "providers/gemini: decode stream chunk" /\ ret.cause = "json"
    /\ delivered = <<>>

(***************************************************************************)
(* Non-streaming answers without a result (C35).                           *)
(***************************************************************************)
\* C35: a Gemini non-streaming response with no candidates, or with empty
\* text parts only, makes Chat return nil with no callback, while an OpenAI
\* non-streaming response with no choices makes Chat return an error.
C35_EmptyResult ==
    /\ ( /\ provider.kind = "gemini" /\ ~opts.Stream /\ pc = "done"
         /\ OneObjectAnswer /\ ProducedTexts(world.events) = <<>> )
          => (ret = NoErr /\ delivered = <<>>)
    /\ ( /\ provider.kind = "openai" /\ ~opts.Stream /\ pc = "done"
         /\ world.sdkErr = "none" /\ Len(world.chunks[1].choices) = 0 )
          => (ret # NoErr /\ ret.label = "providers/openai: empty choices"
                /\ delivered = <<>>)

\* Gemini answered with one candidate whose only part has no text, and the
\* call came to a good end
C35_Witness ==
    /\ provider.kind = "gemini" /\ ~opts.Stream /\ pc = "done"
    /\ OneObjectAnswer /\ world.events[1].doc = <<"cand", "nil">>
    /\ ~opts.OnDelta.isNil
    /\ ret = NoErr /\ delivered = <<>>

(***************************************************************************)
(* Format suppression next to sampling settings (C36).                     *)
(***************************************************************************)
\* the call sets a temperature, a top-p or a usable top-k
HasSampling(o) == o.Temperature # 0 \/ o.TopP # 0 \/ extractTopK(o.Options) # <<>>

\* C36: when a Gemini call asks for format suppression together with
\* sampling settings, the generation config of the request carries the
\* temperature, top-p and top-k it would carry without suppression and
\* neither responseMimeType nor responseSchema.
C36_SuppressionKeepsSampling ==
    (provider.kind = "gemini" /\ Issued /\ opts.NoResponseFormat /\ HasSampling(opts)) =>
    LET cfg   == requests[1].body.generationConfig
        plain == buildGenerationConfig([opts EXCEPT !.NoResponseFormat = FALSE])
    IN  /\ ~cfg.isNil /\ ~plain.isNil
        /\ cfg.Temperature = plain.Temperature
        /\ cfg.TopP = plain.TopP
        /\ cfg.TopK = plain.TopK
        /\ cfg.Temperature = IF opts.Temperature # 0 THEN <<opts.Temperature>> ELSE <<>>
        /\ cfg.TopP = IF opts.TopP # 0 THEN <<opts.TopP>> ELSE <<>>
        /\ cfg.ResponseMimeType = <<>>
        /\ cfg.ResponseSchema = <<>>

\* a suppressed call with a temperature, a top-p and a top-k
C36_Witness ==
    /\ provider.kind = "gemini" /\ Issued /\ opts.NoResponseFormat
    /\ requests[1].body.generationConfig
         = GenerationConfig(<<7>>, <<9>>, <<40>>, <<>>, <<>>)

(***************************************************************************)
(* The functional options (option.go).  A map is a reference: the heap     *)
(* maps holds the caller's maps under their names and, under OwnMap, the    *)
(* map an option allocates.  A pointer is <<>> (nil) or <<name>>.           *)
(***************************************************************************)
MaxOptions == 3
InputNames == {"m1", "m2"}
OwnMap     == "own"

\* an Option value: the function that made it and that function's arguments
Op(fn, m, k, v) == [fn |-> fn, m |-> m, k |-> k, v |-> v]

\* c.Options[k] = v
Put(m, k, v) == {e \in m : e.k # k} \cup {Entry(k, v)}

\* for k, v := range m { c.Options[k] = v }
PutAll(dst, m) == {e \in dst : e.k \notin Keys(m)} \cup m

\* the map a pointer refers to; ranging over a nil map finds nothing
Deref(maps, p) == IF p = <<>> THEN {} ELSE maps[p[1]]

\* WithOptions where a nil c.Options takes the caller's map itself
WithOptionsAdopting(c, m) ==
    IF c.maps[m] = {} THEN c
    ELSE IF c.Options = <<>> THEN [c EXCEPT !.Options = <<m>>]
    ELSE [c EXCEPT !.maps[c.Options[1]] = PutAll(@, c.maps[m])]

\* the function WithOptions(m) returns, applied to c
WithOptions(c, m) ==
    IF c.maps[m] = {} THEN c
    ELSE IF c.Options = <<>>
    THEN [c EXCEPT !.Options = <<OwnMap>>, !.maps[OwnMap] = PutAll({}, c.maps[m])]
    ELSE [c EXCEPT !.maps[c.Options[1]] = PutAll(@, c.maps[m])]

\* the function WithExtraOption(k, v) returns, applied to c
WithExtraOption(c, k, v) ==
    IF c.Options = <<>>
    THEN [c EXCEPT !.Options = <<OwnMap>>, !.maps[OwnMap] = Put({}, k, v)]
    ELSE [c EXCEPT !.maps[c.Options[1]] = Put(@, k, v)]

WithTemperature(c, v) == [c EXCEPT !.co.Temperature = v]
WithTopP(c, v)        == [c EXCEPT !.co.TopP = v]
WithThink(c, b)       == [c EXCEPT !.co.Think = b]

\* fn(&co)
ApplyOption(fn, c) ==
    CASE fn.fn = "WithOptions"     -> WithOptions(c, fn.m)
      [] fn.fn = "WithExtraOption" -> WithExtraOption(c, fn.k, fn.v)
      [] fn.fn = "WithTemperature" -> WithTemperature(c, fn.v.n)
      [] fn.fn = "WithTopP"        -> WithTopP(c, fn.v.n)
      [] fn.fn = "WithThink"       -> WithThink(c, fn.v.n = 1)
      [] OTHER                     -> c

\* the loop of NewChatOptions: a nil Option is skipped
RECURSIVE ApplyOptions(_, _)
ApplyOptions(fns, c) ==
    IF fns = <<>> THEN c
    ELSE ApplyOptions(Tail(fns), IF Head(fns).fn = "nil" THEN c ELSE ApplyOption(Head(fns), c))

\* NewChatOptions(model, prompt, fns...) over the heap maps
NewChatOptions(model, prompt, fns, maps) ==
    ApplyOptions(fns, [co |-> Opts(model, prompt, FALSE, TRUE, 0), Options |-> <<>>,
                       maps |-> maps])

NoVal == Val("nil", 0, <<>>)

\* the Options a caller passes
OptionMenu ==
    { Op("nil", "", "", NoVal) }
      \cup { Op("WithOptions", m, "", NoVal) : m \in InputNames }
      \cup { Op("WithExtraOption", "", "temperature", Val("float", 3, <<>>)),
             Op("WithExtraOption", "", "num_ctx", Val("int", 8, <<>>)),
             Op("WithExtraOption", "", "enable_thinking", Val("bool", 0, <<>>)) }
      \cup { Op("WithTemperature", "", "", Val("float", 7, <<>>)),
             Op("WithTopP", "", "", Val("float", 9, <<>>)),
             Op("WithThink", "", "", Val("bool", 1, <<>>)) }

\* the maps a caller holds
InputMenu ==
    { [m1 |-> m1, m2 |-> m2] :
        m1 \in { {}, {Entry("temperature", Val("float", 9, <<>>)),
                      Entry("top_p", Val("float", 5, <<>>))} },
        m2 \in { {Entry("temperature", Val("float", 2, <<>>))},
                 {Entry("num_ctx", Val("int", 4, <<>>)),
                  Entry("enable_thinking", Val("bool", 1, <<>>))} } }

OptionSeqs == UNION { [1..n -> OptionMenu] : n \in 0..MaxOptions }

\* opts := providers.NewChatOptions(...)
Build ==
    /\ build.at = "args"
    /\ build' = [build EXCEPT
          !.at = "built",
          !.maps = NewChatOptions(<<"m">>, <<"p">>, build.fns, build.maps).maps,
          !.Options = NewChatOptions(<<"m">>, <<"p">>, build.fns, build.maps).Options,
          !.co = [NewChatOptions(<<"m">>, <<"p">>, build.fns, build.maps).co EXCEPT
                    !.Options = Deref(NewChatOptions(<<"m">>, <<"p">>, build.fns,
                                                     build.maps).maps,
                                      NewChatOptions(<<"m">>, <<"p">>, build.fns,
                                                     build.maps).Options)]]
    /\ UNCHANGED <<bbox, newIn, opts, world, pc, provider, newErr, requests, res, pos,
                   rbuf, dataBuf, emitQ, after, delivered, ret, other>>

\* Ollama.Chat builds the request's Options from the ChatOptions
Merge ==
    /\ build.at = "built"
    /\ build' = [build EXCEPT !.at = "sent", !.merged = OllamaRequest(build.co).Options]
    /\ UNCHANGED <<bbox, newIn, opts, world, pc, provider, newErr, requests, res, pos,
                   rbuf, dataBuf, emitQ, after, delivered, ret, other>>

InitOptions ==
    /\ build \in { [at |-> "args", fns |-> fns, inputs |-> in,
                    maps |-> [m \in InputNames \cup {OwnMap} |->
                                IF m = OwnMap THEN {} ELSE in[m]],
                    co |-> DefaultOpts, Options |-> <<>>, merged |-> {}] :
                   fns \in OptionSeqs, in \in InputMenu }
    /\ bbox = NoBbox
    /\ newIn = DefaultNewIn
    /\ opts = DefaultOpts
    /\ world = DefaultWorld
    /\ pc = "new"
    /\ other = NoCall
    /\ provider = NoProvider
    /\ newErr = NoErr
    /\ requests = <<>>
    /\ res = [acquired |-> 0, closes |-> 0, deferred |-> FALSE]
    /\ pos = 0
    /\ rbuf = <<>>
    /\ dataBuf = <<>>
    /\ emitQ = <<>>
    /\ after = "return"
    /\ delivered = <<>>
    /\ ret = NoErr

NextOptions == Build \/ Merge

SpecOptions == InitOptions /\ [][NextOptions]_vars

(***************************************************************************)
(* C37: the extra options merge with override semantics.                   *)
(***************************************************************************)
\* the applications of a call that set key k, by their position
Setters(k) ==
    { i \in 1..Len(build.fns) :
        \/ build.fns[i].fn = "WithExtraOption" /\ build.fns[i].k = k
        \/ build.fns[i].fn = "WithOptions" /\ k \in Keys(build.inputs[build.fns[i].m]) }

LastSetter(k) == CHOOSE i \in Setters(k) : \A j \in Setters(k) : j <= i

\* the value application i gives key k
SetValue(i, k) ==
    IF build.fns[i].fn = "WithExtraOption" THEN build.fns[i].v
    ELSE Lookup(build.inputs[build.fns[i].m], k)

OptionKeys == {"temperature", "top_p", "num_ctx", "enable_thinking", "topK"}

\* C37: after NewChatOptions has applied a sequence of WithOptions and
\* WithExtraOption options, a key is in Options exactly when some application
\* set it and then holds the value of the last application that set it; the
\* caller's maps hold what they held before the call; and the Options of the
\* Ollama request hold, one value per key, the caller's value under every key
\* the caller supplied.
C37_OverrideSemantics ==
    build.at \in {"built", "sent"} =>
      /\ \A k \in OptionKeys :
           /\ (Setters(k) = {}) = (k \notin Keys(build.co.Options))
           /\ Setters(k) # {} =>
                {e.v : e \in {x \in build.co.Options : x.k = k}}
                  = {SetValue(LastSetter(k), k)}
      /\ Keys(build.co.Options) \subseteq OptionKeys
      /\ \A m \in InputNames : build.maps[m] = build.inputs[m]
      /\ build.at = "sent" =>
           /\ build.co.Options \subseteq build.merged
           /\ \A e1, e2 \in build.merged : e1.k = e2.k => e1 = e2

\* two maps and a single key are applied, the second map's temperature is
\* overridden by the single key, and the request carries the caller's value
\* where 7 was derived
C37_Witness ==
    /\ build.at = "sent"
    /\ Len(build.fns) = 3
    /\ build.fns[1].fn = "WithTemperature"
    /\ build.fns[2] = Op("WithOptions", "m2", "", NoVal)
    /\ build.fns[3] = Op("WithExtraOption", "", "temperature", Val("float", 3, <<>>))
    /\ build.inputs.m2 = {Entry("temperature", Val("float", 2, <<>>))}
    /\ build.co.Temperature = 7
    /\ build.merged = {Entry("temperature", Val("float", 3, <<>>)),
                       Entry("enable_thinking", Val("bool", 0, <<>>))}

(***************************************************************************)
(* C38: the [DONE] event does not end the stream.                          *)
(***************************************************************************)
\* the reader has nothing more to read: ReadString returns io.EOF
InputEnded ==
    /\ ~ReadString(rbuf).found
    /\ pos = Len(world.body)
    /\ world.tail = "eof"

\* C38: a [DONE] event does not end the stream.  When a [DONE] event is
\* dispatched with input still to be read the reader goes on reading with
\* nothing returned; the reader of a streaming Gemini call returns only at
\* end-of-input or with an error; and a call whose events are all well-formed
\* and closed by their blank line, with a callback that never fails, ends
\* with nil having delivered the text fragments of every event, those behind
\* a [DONE] event included.
C38_DoneDoesNotEnd ==
    /\ [][ /\ (AtDispatch /\ TrimSpace(dataBuf) = DoneSentinel /\ ~InputEnded)
              => (pc' = "read" /\ ret' = ret /\ delivered' = delivered)
           /\ (InSSEReader /\ pc' = "done") => (ret' # NoErr \/ InputEnded) ]_vars
    /\ [](( /\ provider.kind = "gemini" /\ opts.Stream
            /\ pc = "done" /\ requests # <<>>
            /\ CleanRun /\ world.trunc = "full" /\ world.status < 400 /\ ~world.doErr
            /\ \E i \in 1..Len(world.events) : world.events[i].fr = "done" )
           => (ret = NoErr /\ delivered = DeliverableGemini(world)))

\* a [DONE] event came first and both fragments of the event behind it
\* were delivered
C38_Witness ==
    /\ provider.kind = "gemini" /\ opts.Stream
    /\ pc = "done"
    /\ ret = NoErr
    /\ world.events = << Item("done", <<>>), Item("split", <<"cand", "Hel", "cand", "lo">>) >>
    /\ world.trunc = "full"
    /\ Len(delivered) = 2
    /\ delivered = DeliverableGemini(world)

(***************************************************************************)
(* C39: a read error with an event still in the buffer.                    *)
(***************************************************************************)
\* ReadString is about to return an error that is not io.EOF
AtReadFailure ==
    /\ provider.kind = "gemini" /\ opts.Stream
    /\ pc = "read"
    /\ ~ReadString(rbuf).found
    /\ pos = Len(world.body)
    /\ world.tail # "eof"

\* C39: when a read of the stream fails with an error other than
\* end-of-input while the data buffer is not empty, the buffered event is
\* not dispatched: the call returns at once the read error wrapped behind
\* "providers/gemini: read stream", and no callback is made then or later.
C39_ReadFailureDiscards ==
    [][ /\ (AtReadFailure /\ dataBuf # <<>>)
           => /\ pc' = "done"
              /\ ret' = Wrap("providers/gemini: read stream",
                             IOErr(world.tail, "connection reset"))
              /\ ret'.cause = IOErr(world.tail, "connection reset").cause
              /\ delivered' = delivered
              /\ emitQ' = emitQ
        /\ (pc = "done" /\ ret.label = "providers/gemini: read stream")
           => delivered' = delivered ]_vars

\* the connection broke behind the data line of an event whose blank line
\* never came: its text was in the buffer and was not delivered
C39_Witness ==
    /\ provider.kind = "gemini" /\ opts.Stream
    /\ pc = "done"
    /\ world.tail = "err"
    /\ world.events = <<OneChunkLF>>
    /\ dataBuf = <<"{">> \o OneChunkLF.doc \o <<"}">>
    /\ dispatchSSEData(dataBuf).kind = "emit"
    /\ dispatchSSEData(dataBuf).calls # <<>>
    /\ delivered = <<>>
    /\ ret = Wrap("providers/gemini: read stream", IOErr("err", "connection reset"))

(***************************************************************************)
(* C40: the text batch image mode accumulates (cmd/run.go).  The callback  *)
(* is synchronous, never fails and keeps no state but the builder sb, so    *)
(* sb after the call is the callback folded over the invocations made.      *)
(***************************************************************************)
\* the OnDelta callback of the batch loop: the builder sb after one call
batchOnDelta(stream, sb, content, thinking) ==
    IF stream /\ thinking # <<>> THEN sb
    ELSE IF content # <<>> THEN sb \o content
    ELSE sb

\* sb.String() after the callback was invoked with calls, in order
RECURSIVE Accumulated(_, _, _)
Accumulated(stream, calls, sb) ==
    IF calls = <<>> THEN sb
    ELSE Accumulated(stream, Tail(calls),
                     batchOnDelta(stream, sb, Head(calls).content, Head(calls).thinking))

\* the content fragments passed to the callback, in order
ContentOf(calls) == Concat([i \in 1..Len(calls) |-> calls[i].content])

\* a call as the batch loop makes it: its callback is set and returns nil
BatchCall ==
    /\ requests # <<>>
    /\ ~opts.OnDelta.isNil
    /\ opts.OnDelta.failAt = 0

\* C40 as stated: after a Chat call of batch image mode the accumulated text
\* is the in-order concatenation of every non-empty content fragment passed
\* to the callback, with or without a thinking fragment in the same
\* invocation, streaming or not.
C40_AsStated ==
    (pc = "done" /\ BatchCall)
       => Accumulated(opts.Stream, delivered, <<>>) = ContentOf(delivered)

====
